---------------------------- MODULE Spec2Model ----------------------------
(***************************************************************************)
(* A model of the Notion page extractor: the TOON converter                *)
(* (src/lib/toon-converter.js), the value extraction of the API client     *)
(* (src/lib/notion-api.js) and the extract request of the service worker   *)
(* (src/background/service-worker.js).                                      *)
(*                                                                         *)
(* Representation.  A JavaScript string is a sequence of tokens: a token   *)
(* is one character of user text ("a", ",", ":", "\n", ...) or one literal *)
(* fragment of a template of the source ("p: ", "items[", "]:", ...).      *)
(* A JavaScript object is a record; a property the object does not have    *)
(* (undefined, or JSON null) is a field the record does not have.  The     *)
(* value of a possibly missing property is an option: Undefined or         *)
(* Def(v).                                                                 *)
(***************************************************************************)
EXTENDS Integers, Sequences, FiniteSets, TLC

VARIABLES
    value,      \* escapeValue, formatPropertyValue: the argument of the call
    escaped,    \* escapeValue, formatPropertyValue: the value returned
    page,       \* convertToToon: the page argument
    blocks,     \* convertToToon: the blocks argument
    lines,      \* convertToToon: the local line list at the return
    toon,       \* convertToToon: the string returned
    pc,         \* "ready" before the call, "done" after a return, "threw" after a throw
    storage,    \* chrome.storage.local: Def(key) under notion_api_key, or Undefined
    remote,     \* the Notion workspace the API serves
    request,    \* the message the listener is handling, or Undefined
    at,         \* where the listener's async function stands
    pageCall,   \* client.getPage(pageId): "none", "pending", "ok" or "failed"
    blocksCall, \* the outermost client.getAllBlocks(pageId): likewise
    frames,     \* the calls of getAllBlocks in progress, outermost first
    fetched,    \* the key and page id in use, and what the calls settled with
    responses,  \* the sendResponse calls made for the message
    failures,   \* the API requests of this message that failed
    handled,    \* the messages received
    scanAt,     \* convertBlocks: the index i of the scan
    calls       \* convertBlocks: the calls the scan has made, in order

cvars == <<value, escaped, page, blocks, lines, toon, pc>>

wvars == <<storage, remote, request, at, pageCall, blocksCall, frames, fetched,
           responses, failures, handled>>

svars == <<scanAt, calls>>

vars == <<cvars, wvars, svars>>

-----------------------------------------------------------------------------
(* JavaScript values *)

NL == "\n"

\* undefined (or null): what reading a missing property gives.
Undefined == <<>>

Def(v) == <<v>>

IsDef(o) == o # Undefined

\* obj.key of an object that is there.
Prop(obj, key) == IF key \in DOMAIN obj THEN Def(obj[key]) ELSE Undefined

\* o?.key: undefined when o is undefined or null.
OptChain(o, key) == IF IsDef(o) THEN Prop(o[1], key) ELSE Undefined

\* The token that stands for a TypeError raised while a string is built: it
\* stays in every string built from it, up to the call that would not return.
TypeError == "<TypeError>"

RECURSIVE Flatten(_)
\* The concatenation of a sequence of sequences.
Flatten(ss) == IF ss = <<>> THEN <<>> ELSE Head(ss) \o Flatten(Tail(ss))

RECURSIVE Join(_, _)
\* Array.prototype.join with a one-token separator.
Join(ss, sep) ==
    IF ss = <<>> THEN <<>>
    ELSE IF Len(ss) = 1 THEN ss[1]
    ELSE ss[1] \o <<sep>> \o Join(Tail(ss), sep)

\* String.prototype.includes for a one-token pattern.
Includes(s, tok) == \E i \in 1..Len(s) : s[i] = tok

RECURSIVE Split_SkipsEmpty(_, _)
\* A slip that leaves the empty pieces out.
Split_SkipsEmpty(s, sep) ==
    IF ~Includes(s, sep) THEN (IF s = <<>> THEN <<>> ELSE <<s>>)
    ELSE LET k == CHOOSE i \in 1..Len(s) :
                      s[i] = sep /\ \A j \in 1..(i - 1) : s[j] # sep
         IN  (IF k = 1 THEN <<>> ELSE <<SubSeq(s, 1, k - 1)>>)
                \o Split_SkipsEmpty(SubSeq(s, k + 1, Len(s)), sep)

RECURSIVE Split(_, _)
\* String.prototype.split with a one-token separator.
Split(s, sep) ==
    IF ~Includes(s, sep) THEN <<s>>
    ELSE LET k == CHOOSE i \in 1..Len(s) :
                      s[i] = sep /\ \A j \in 1..(i - 1) : s[j] # sep
         IN  <<SubSeq(s, 1, k - 1)>> \o Split(SubSeq(s, k + 1, Len(s)), sep)

Digits == <<"0", "1", "2", "3", "4", "5", "6", "7", "8", "9">>

RECURSIVE Decimal(_)
\* String(n) of a natural number: its decimal digits.
Decimal(n) ==
    IF n < 10 THEN <<Digits[n + 1]>>
    ELSE Decimal(n \div 10) \o <<Digits[(n % 10) + 1]>>

RECURSIVE Repeat(_, _)
\* String.prototype.repeat.
Repeat(s, n) == IF n = 0 THEN <<>> ELSE s \o Repeat(s, n - 1)

-----------------------------------------------------------------------------
(* Value escaping: src/lib/toon-converter.js, escapeValue *)

Ellipsis == <<".", ".", ".">>

\* A slip that keeps the first line and forgets the marker.
escapeValue_NoMarker(v) ==
    IF v = <<>> THEN <<>>
    ELSE IF Includes(v, NL) THEN Split(v, NL)[1]
    ELSE v

escapeValue(v) ==
    IF v = <<>> THEN <<>>
    ELSE IF Includes(v, NL) THEN Split(v, NL)[1] \o Ellipsis
    ELSE v

-----------------------------------------------------------------------------
(* Rich text: src/lib/notion-api.js, richTextToPlain *)

\* A slip that drops the guard on a missing run list.
richTextToPlain_NoGuard(richTextArray) ==
    IF ~IsDef(richTextArray) THEN <<TypeError>>
    ELSE Flatten([i \in 1..Len(richTextArray[1]) |->
                    IF "plain_text" \in DOMAIN richTextArray[1][i]
                    THEN richTextArray[1][i].plain_text ELSE <<>>])

\* richTextArray is an option: the run list, or Undefined.
richTextToPlain(richTextArray) ==
    IF ~IsDef(richTextArray) THEN <<>>
    ELSE Flatten([i \in 1..Len(richTextArray[1]) |->
                    IF "plain_text" \in DOMAIN richTextArray[1][i]
                    THEN richTextArray[1][i].plain_text ELSE <<>>])

-----------------------------------------------------------------------------
(* Block conversion: src/lib/toon-converter.js *)

\* '  '.repeat(indent): one token "  " per level.
Indent(indent) == Repeat(<<"  ">>, indent)

\* a || b on strings: the empty string and undefined are falsy.
OrElse(o, dflt) == IF IsDef(o) /\ o[1] # <<>> THEN o[1] ELSE dflt

\* lines.map(l => indentStr + l)
PrefixAll(indentStr, ls) == [i \in 1..Len(ls) |-> indentStr \o ls[i]]

isListItem(block) ==
    block.type \in {"bulleted_list_item", "numbered_list_item", "to_do"}

\* A slip that collects every following list item, whatever its kind.
collectListItems_AnyKind(bs, startIndex) ==
    LET stop == IF \E i \in startIndex..Len(bs) : ~isListItem(bs[i])
                THEN CHOOSE i \in startIndex..Len(bs) :
                        /\ ~isListItem(bs[i])
                        /\ \A j \in startIndex..(i - 1) : isListItem(bs[j])
                ELSE Len(bs) + 1
    IN  SubSeq(bs, startIndex, stop - 1)

\* The consecutive blocks of the kind of bs[startIndex], from startIndex on
\* (indices are 1-based here, 0-based in the source).
collectListItems(bs, startIndex) ==
    LET startType == bs[startIndex].type
        stop == IF \E i \in startIndex..Len(bs) : bs[i].type # startType
                THEN CHOOSE i \in startIndex..Len(bs) :
                        /\ bs[i].type # startType
                        /\ \A j \in startIndex..(i - 1) : bs[j].type = startType
                ELSE Len(bs) + 1
    IN  SubSeq(bs, startIndex, stop - 1)

\* cells?.map(cell => richTextToPlain(cell)) || [] of one table row.
RowCells(row) ==
    LET cells == OptChain(Prop(row, "table_row"), "cells")
    IN  IF IsDef(cells)
        THEN [i \in 1..Len(cells[1]) |-> richTextToPlain(Def(cells[1][i]))]
        ELSE <<>>

\* cells.map(c => escapeValue(c)).join(',')
JoinEscaped(cells) == Join([i \in 1..Len(cells) |-> escapeValue(cells[i])], ",")

\* A slip that counts the header row among the data rows.
formatTable_CountsHeader(block, indentStr) ==
    IF ~IsDef(Prop(block, "children")) \/ Len(block.children) = 0
    THEN <<indentStr \o <<"table[", "0", "]:">>>>
    ELSE
        LET rows == block.children
            hasHeader == OptChain(Prop(block, "table"), "has_column_header") = Def(TRUE)
            headers == IF hasHeader /\ Len(rows) > 0 THEN RowCells(rows[1]) ELSE <<>>
            dataRows == IF hasHeader /\ Len(rows) > 0 THEN Tail(rows) ELSE rows
            head == IF Len(headers) > 0
                    THEN indentStr \o <<"table[">> \o Decimal(Len(rows)) \o <<"]{">>
                            \o JoinEscaped(headers) \o <<"}:">>
                    ELSE indentStr \o <<"table[">> \o Decimal(Len(rows)) \o <<"]:">>
        IN  <<head>> \o [i \in 1..Len(dataRows) |->
                            indentStr \o <<"  ">> \o JoinEscaped(RowCells(dataRows[i]))]

formatTable(block, indentStr) ==
    IF ~IsDef(Prop(block, "children")) \/ Len(block.children) = 0
    THEN <<indentStr \o <<"table[", "0", "]:">>>>
    ELSE
        LET rows == block.children
            hasHeader == OptChain(Prop(block, "table"), "has_column_header") = Def(TRUE)
            headers == IF hasHeader /\ Len(rows) > 0 THEN RowCells(rows[1]) ELSE <<>>
            dataRows == IF hasHeader /\ Len(rows) > 0 THEN Tail(rows) ELSE rows
            head == IF Len(headers) > 0
                    THEN indentStr \o <<"table[">> \o Decimal(Len(dataRows)) \o <<"]{">>
                            \o JoinEscaped(headers) \o <<"}:">>
                    ELSE indentStr \o <<"table[">> \o Decimal(Len(dataRows)) \o <<"]:">>
        IN  <<head>> \o [i \in 1..Len(dataRows) |->
                            indentStr \o <<"  ">> \o JoinEscaped(RowCells(dataRows[i]))]

\* block.<kind>?.rich_text rendered to plain text.
BlockText(block, kind) == richTextToPlain(OptChain(Prop(block, kind), "rich_text"))

\* block.<kind>?.file?.url || block.<kind>?.external?.url || ''
MediaUrl(block, kind) ==
    OrElse(OptChain(OptChain(Prop(block, kind), "file"), "url"),
           OrElse(OptChain(OptChain(Prop(block, kind), "external"), "url"), <<>>))

\* block.to_do?.checked ? '[x]' : '[ ]'
CheckedMark(payload) == IF OptChain(payload, "checked") = Def(TRUE) THEN "[x]" ELSE "[ ]"

\* The default callout icon, the one character U+1F4A1 (light bulb).
DefaultIcon == <<"U+1F4A1">>

TextKindMarker ==
    [paragraph |-> <<"p: ">>, heading_1 |-> <<"h1: ">>, heading_2 |-> <<"h2: ">>,
     heading_3 |-> <<"h3: ">>, bulleted_list_item |-> <<"- ">>,
     numbered_list_item |-> <<"# ">>, toggle |-> <<"toggle: ">>, quote |-> <<"quote: ">>]

RECURSIVE convertBlocks(_, _)
RECURSIVE convertBlocksFrom(_, _, _)
RECURSIVE convertBlock(_, _)
RECURSIVE formatListItems(_, _)
RECURSIVE ColumnLines(_, _)

\* The children of the columns cols[i..], each converted at the given indent.
ColumnLines(cols, indent) ==
    IF cols = <<>> THEN <<>>
    ELSE (IF IsDef(Prop(Head(cols), "children"))
          THEN convertBlocks(Prop(Head(cols), "children"), indent)
          ELSE <<>>) \o ColumnLines(Tail(cols), indent)

convertBlock(block, indent) ==
    LET indentStr == Indent(indent)
        type == block.type
        children == Prop(block, "children")
        childLines(d) == IF IsDef(children) THEN convertBlocks(children, d) ELSE <<>>
        textLine(prefix, text) ==
            IF text # <<>> THEN <<indentStr \o prefix \o escapeValue(text)>> ELSE <<>>
    IN
    CASE type \in {"heading_1", "heading_2", "heading_3", "bulleted_list_item",
                   "numbered_list_item", "toggle", "quote"} ->
            textLine(TextKindMarker[type], BlockText(block, type)) \o childLines(indent + 1)
      [] type = "paragraph" ->
            textLine(TextKindMarker[type], BlockText(block, type))
      [] type = "to_do" ->
            textLine(<<CheckedMark(Prop(block, "to_do")), " ">>, BlockText(block, type))
                \o childLines(indent + 1)
      [] type = "code" ->
            LET text == BlockText(block, type)
                lang == OrElse(OptChain(Prop(block, "code"), "language"), <<"plain">>)
                codeLines == Split(text, NL)
            IN  IF text # <<>>
                THEN <<indentStr \o <<"code[">> \o lang \o <<"]:">>>>
                        \o [i \in 1..Len(codeLines) |-> indentStr \o <<"  ">> \o codeLines[i]]
                ELSE <<>>
      [] type = "callout" ->
            LET icon == OrElse(OptChain(OptChain(Prop(block, "callout"), "icon"), "emoji"),
                               DefaultIcon)
            IN  textLine(<<"callout[">> \o icon \o <<"]: ">>, BlockText(block, type))
                    \o childLines(indent + 1)
      [] type = "divider" -> <<indentStr \o <<"---">>>>
      [] type = "image" ->
            LET url == MediaUrl(block, type)
                caption == richTextToPlain(OptChain(Prop(block, "image"), "caption"))
            IN  IF caption # <<>>
                THEN <<indentStr \o <<"image: ">> \o escapeValue(caption)>>
                ELSE <<indentStr \o <<"image: ">> \o url>>
      [] type = "video" -> <<indentStr \o <<"video: ">> \o MediaUrl(block, type)>>
      [] type = "file" ->
            LET name == OrElse(OptChain(Prop(block, "file"), "name"), <<"file">>)
            IN  <<indentStr \o <<"file[">> \o name \o <<"]: ">> \o MediaUrl(block, type)>>
      [] type = "pdf" -> <<indentStr \o <<"pdf: ">> \o MediaUrl(block, type)>>
      [] type = "bookmark" ->
            LET url == OrElse(OptChain(Prop(block, "bookmark"), "url"), <<>>)
                caption == richTextToPlain(OptChain(Prop(block, "bookmark"), "caption"))
            IN  IF caption # <<>>
                THEN <<indentStr \o <<"bookmark: ">> \o escapeValue(caption)
                          \o <<" (">> \o url \o <<")">>>>
                ELSE <<indentStr \o <<"bookmark: ">> \o url>>
      [] type = "link_preview" ->
            <<indentStr \o <<"link: ">> \o OrElse(OptChain(Prop(block, type), "url"), <<>>)>>
      [] type = "embed" ->
            <<indentStr \o <<"embed: ">> \o OrElse(OptChain(Prop(block, type), "url"), <<>>)>>
      [] type = "equation" ->
            <<indentStr \o <<"math: ">>
                \o escapeValue(OrElse(OptChain(Prop(block, type), "expression"), <<>>))>>
      [] type = "table_of_contents" -> <<indentStr \o <<"toc:">>>>
      [] type = "breadcrumb" -> <<indentStr \o <<"breadcrumb:">>>>
      [] type = "column_list" ->
            IF IsDef(children)
            THEN <<indentStr \o <<"columns:">>>> \o ColumnLines(children[1], indent + 1)
            ELSE <<>>
      [] type = "synced_block" -> childLines(indent)
      [] type = "child_page" ->
            <<indentStr \o <<"page: ">>
                \o escapeValue(OrElse(OptChain(Prop(block, type), "title"), <<"Untitled">>))>>
      [] type = "child_database" ->
            <<indentStr \o <<"database: ">>
                \o escapeValue(OrElse(OptChain(Prop(block, type), "title"), <<"Untitled">>))>>
      [] type = "link_to_page" ->
            <<indentStr \o <<"link_to_page: ">>
                \o OrElse(OptChain(Prop(block, type), "page_id"),
                          OrElse(OptChain(Prop(block, type), "database_id"), <<>>))>>
      [] OTHER -> <<indentStr \o <<"[", type, "]">>>>

\* items.some(item => item.children && item.children.length > 0)
HasChildren(items) ==
    \E i \in 1..Len(items) :
        IsDef(Prop(items[i], "children")) /\ Len(items[i].children) > 0

\* The header label of the tabular form of a list kind.
ListPrefix(type) ==
    IF type = "bulleted_list_item" THEN "items"
    ELSE IF type = "numbered_list_item" THEN "list"
    ELSE "todos"

\* One line of the tabular form.
TabularItem(item, type, indentStr) ==
    LET blockContent == Prop(item, type)
        text == richTextToPlain(OptChain(blockContent, "rich_text"))
    IN  IF type = "to_do"
        THEN indentStr \o <<"  ", CheckedMark(blockContent), " ">> \o escapeValue(text)
        ELSE indentStr \o <<"  ">> \o escapeValue(text)

\* A slip that forgets the check for children.
formatListItems_IgnoresChildren(items, indentStr) ==
    IF Len(items) = 0 THEN <<>>
    ELSE
        LET type == items[1].type
        IN  IF Len(items) >= 2
            THEN <<indentStr \o <<ListPrefix(type), "[">> \o Decimal(Len(items)) \o <<"]:">>>>
                    \o [i \in 1..Len(items) |-> TabularItem(items[i], type, indentStr)]
            ELSE Flatten([i \in 1..Len(items) |->
                            PrefixAll(indentStr, convertBlock(items[i], 0))])

\* A slip that leaves the lines of an item converted on its own without the
\* indent of the list.
formatListItems_NoPrefix(items, indentStr) ==
    IF Len(items) = 0 THEN <<>>
    ELSE
        LET type == items[1].type
            hasChildren == HasChildren(items)
        IN  IF ~hasChildren /\ Len(items) >= 2
            THEN <<indentStr \o <<ListPrefix(type), "[">> \o Decimal(Len(items)) \o <<"]:">>>>
                    \o [i \in 1..Len(items) |-> TabularItem(items[i], type, indentStr)]
            ELSE Flatten([i \in 1..Len(items) |-> convertBlock(items[i], 0)])

formatListItems(items, indentStr) ==
    IF Len(items) = 0 THEN <<>>
    ELSE
        LET type == items[1].type
            hasChildren == HasChildren(items)
        IN  IF ~hasChildren /\ Len(items) >= 2
            THEN <<indentStr \o <<ListPrefix(type), "[">> \o Decimal(Len(items)) \o <<"]:">>>>
                    \o [i \in 1..Len(items) |-> TabularItem(items[i], type, indentStr)]
            ELSE Flatten([i \in 1..Len(items) |->
                            PrefixAll(indentStr, convertBlock(items[i], 0))])

\* A slip that ends the scan at a block of a kind convertBlock does not know.
convertBlocksFrom_StopsAtUnknown(bs, i, indent) ==
    IF ~(i <= Len(bs)) THEN <<>>
    ELSE
        LET block == bs[i]
            indentStr == Indent(indent)
        IN  IF isListItem(block)
            THEN LET listItems == collectListItems(bs, i)
                 IN  formatListItems(listItems, indentStr)
                        \o convertBlocksFrom(bs, i + Len(listItems), indent)
            ELSE IF block.type = "table"
            THEN formatTable(block, indentStr) \o convertBlocksFrom(bs, i + 1, indent)
            ELSE IF convertBlock(block, indent) = <<indentStr \o <<"[", block.type, "]">>>>
            THEN convertBlock(block, indent)
            ELSE convertBlock(block, indent) \o convertBlocksFrom(bs, i + 1, indent)

\* The while loop of convertBlocks from index i on (1-based).
convertBlocksFrom(bs, i, indent) ==
    IF ~(i <= Len(bs)) THEN <<>>
    ELSE
        LET block == bs[i]
            indentStr == Indent(indent)
        IN  IF isListItem(block)
            THEN LET listItems == collectListItems(bs, i)
                 IN  formatListItems(listItems, indentStr)
                        \o convertBlocksFrom(bs, i + Len(listItems), indent)
            ELSE IF block.type = "table"
            THEN formatTable(block, indentStr) \o convertBlocksFrom(bs, i + 1, indent)
            ELSE convertBlock(block, indent) \o convertBlocksFrom(bs, i + 1, indent)

\* bs is an option: the block list, or Undefined.
convertBlocks(bs, indent) ==
    IF ~IsDef(bs) \/ Len(bs[1]) = 0 THEN <<>>
    ELSE convertBlocksFrom(bs[1], 1, indent)

-----------------------------------------------------------------------------
(* Property values: src/lib/notion-api.js, extractPropertyValue *)

\* The values extractPropertyValue returns, tagged with their JavaScript type.
JUndef == [t |-> "undefined"]

JNull == [t |-> "null"]

JStr(s) == [t |-> "string", v |-> s]

JNum(n) == [t |-> "number", v |-> n]

JBool(b) == [t |-> "boolean", v |-> b]

JArr(a) == [t |-> "array", v |-> a]

\* obj.key where the payload is a scalar the API gives as a value or as null:
\* the field holds a tagged value, and a missing field reads undefined.
Raw(obj, key) == IF key \in DOMAIN obj THEN obj[key] ELSE JUndef

\* o?.key for such a scalar.
RawChain(o, key) == IF IsDef(o) THEN Raw(o[1], key) ELSE JUndef

\* a || b where a and b are optional strings.
StrOr(a, b) ==
    IF IsDef(a) /\ a[1] # <<>> THEN JStr(a[1])
    ELSE IF IsDef(b) THEN JStr(b[1]) ELSE JUndef

\* a || null where a is an optional string.
StrOrNull(a) == IF IsDef(a) /\ a[1] # <<>> THEN JStr(a[1]) ELSE JNull

\* An optional string as a string or undefined.
StrOpt(a) == IF IsDef(a) THEN JStr(a[1]) ELSE JUndef

\* An optional string inside a template literal.
Template(a) == IF IsDef(a) THEN a[1] ELSE <<"undefined">>

RECURSIVE StringOf(_)
\* String(v), and `${v}`.  An array is its elements joined with commas, a null
\* or undefined element giving the empty string.
StringOf(v) ==
    CASE v.t = "string" -> v.v
      [] v.t = "number" -> IF v.v < 0 THEN <<"-">> \o Decimal(0 - v.v) ELSE Decimal(v.v)
      [] v.t = "boolean" -> IF v.v THEN <<"true">> ELSE <<"false">>
      [] v.t = "null" -> <<"null">>
      [] v.t = "undefined" -> <<"undefined">>
      [] v.t = "array" ->
            Join([i \in 1..Len(v.v) |->
                    IF v.v[i].t \in {"null", "undefined"} THEN <<>> ELSE StringOf(v.v[i])],
                 ",")

extractFormulaValue(formula) ==
    IF ~IsDef(formula) THEN JNull
    ELSE CASE Prop(formula[1], "type") = Def("string") -> Raw(formula[1], "string")
           [] Prop(formula[1], "type") = Def("number") -> Raw(formula[1], "number")
           [] Prop(formula[1], "type") = Def("boolean") -> Raw(formula[1], "boolean")
           [] Prop(formula[1], "type") = Def("date") ->
                StrOpt(OptChain(Prop(formula[1], "date"), "start"))
           [] OTHER -> JNull

RECURSIVE extractPropertyValue(_)
RECURSIVE extractRollupValue(_)

\* property is an option: the property object, or Undefined.
extractPropertyValue(property) ==
    IF ~IsDef(property) THEN JNull
    ELSE
        LET p == property[1]
            type == p.type
            names(key, f(_)) ==
                IF IsDef(Prop(p, key))
                THEN JArr([i \in 1..Len(p[key]) |-> f(p[key][i])])
                ELSE JArr(<<>>)
        IN
        CASE type = "title" -> JStr(richTextToPlain(Prop(p, "title")))
          [] type = "rich_text" -> JStr(richTextToPlain(Prop(p, "rich_text")))
          [] type = "number" -> Raw(p, "number")
          [] type = "select" -> StrOrNull(OptChain(Prop(p, "select"), "name"))
          [] type = "multi_select" -> names("multi_select", LAMBDA s : StrOpt(Prop(s, "name")))
          [] type = "status" -> StrOrNull(OptChain(Prop(p, "status"), "name"))
          [] type = "date" ->
                IF ~IsDef(Prop(p, "date")) THEN JNull
                ELSE IF OrElse(Prop(p.date, "end"), <<>>) # <<>>
                THEN JStr(Template(Prop(p.date, "start")) \o <<" → ">> \o p.date.end)
                ELSE StrOpt(Prop(p.date, "start"))
          [] type = "people" ->
                names("people", LAMBDA q : StrOr(Prop(q, "name"), Prop(q, "id")))
          [] type = "files" ->
                names("files", LAMBDA f :
                    IF OrElse(Prop(f, "name"), <<>>) # <<>> THEN JStr(f.name)
                    ELSE IF OrElse(OptChain(Prop(f, "external"), "url"), <<>>) # <<>>
                    THEN JStr(f.external.url)
                    ELSE StrOpt(OptChain(Prop(f, "file"), "url")))
          [] type = "checkbox" -> Raw(p, "checkbox")
          [] type = "url" -> Raw(p, "url")
          [] type = "email" -> Raw(p, "email")
          [] type = "phone_number" -> Raw(p, "phone_number")
          [] type = "formula" -> extractFormulaValue(Prop(p, "formula"))
          [] type = "relation" -> names("relation", LAMBDA r : StrOpt(Prop(r, "id")))
          [] type = "rollup" -> extractRollupValue(Prop(p, "rollup"))
          [] type = "created_time" -> Raw(p, "created_time")
          [] type = "created_by" ->
                StrOr(OptChain(Prop(p, "created_by"), "name"),
                      OptChain(Prop(p, "created_by"), "id"))
          [] type = "last_edited_time" -> Raw(p, "last_edited_time")
          [] type = "last_edited_by" ->
                StrOr(OptChain(Prop(p, "last_edited_by"), "name"),
                      OptChain(Prop(p, "last_edited_by"), "id"))
          [] type = "unique_id" ->
                IF IsDef(Prop(p, "unique_id"))
                THEN LET prefix == OrElse(Prop(p.unique_id, "prefix"), <<>>)
                     IN  IF prefix # <<>>
                         THEN JStr(prefix \o <<"-">> \o StringOf(Raw(p.unique_id, "number")))
                         ELSE Raw(p.unique_id, "number")
                ELSE JNull
          [] OTHER -> JNull

\* rollup.array holds options: a property object, or a null element.
extractRollupValue(rollup) ==
    IF ~IsDef(rollup) THEN JNull
    ELSE CASE Prop(rollup[1], "type") = Def("number") -> Raw(rollup[1], "number")
           [] Prop(rollup[1], "type") = Def("date") ->
                StrOpt(OptChain(Prop(rollup[1], "date"), "start"))
           [] Prop(rollup[1], "type") = Def("array") ->
                IF IsDef(Prop(rollup[1], "array"))
                THEN JArr([i \in 1..Len(rollup[1].array) |->
                            extractPropertyValue(rollup[1].array[i])])
                ELSE JUndef
           [] OTHER -> JNull

-----------------------------------------------------------------------------
(* The page: src/lib/toon-converter.js, convertToToon *)

(* A property map is the sequence of its entries [name, prop] in insertion   *)
(* order, no name twice.  Object.entries lists the keys that are array       *)
(* indices ("0", "1", "12", ...) first, in ascending order, and then the     *)
(* other keys in insertion order.                                            *)

DigitTokens == {Digits[i] : i \in 1..10}

DigitValue(d) == (CHOOSE i \in 1..10 : Digits[i] = d) - 1

\* Whether a key is the canonical decimal text of an array index.
IsIndexKey(name) ==
    /\ Len(name) > 0
    /\ \A i \in 1..Len(name) : name[i] \in DigitTokens
    /\ Len(name) = 1 \/ name[1] # "0"

RECURSIVE KeyNumber(_)
KeyNumber(name) ==
    IF name = <<>> THEN 0
    ELSE 10 * KeyNumber(SubSeq(name, 1, Len(name) - 1)) + DigitValue(name[Len(name)])

ObjectEntries(properties) ==
    LET index == SelectSeq(properties, LAMBDA e : IsIndexKey(e.name))
        others == SelectSeq(properties, LAMBDA e : ~IsIndexKey(e.name))
        rank(e) == Cardinality({j \in 1..Len(index) :
                                    KeyNumber(index[j].name) < KeyNumber(e.name)})
    IN  [i \in 1..Len(index) |->
            index[CHOOSE j \in 1..Len(index) : rank(index[j]) = i - 1]] \o others

\* A slip that falls back to a default title, as the service worker's
\* extractTitle does.
extractTitle_Untitled(pg) ==
    IF ~IsDef(Prop(pg, "properties")) THEN Def(<<"Untitled">>)
    ELSE LET entries == ObjectEntries(pg.properties)
         IN  IF \E i \in 1..Len(entries) : entries[i].prop.type = "title"
             THEN LET k == CHOOSE i \in 1..Len(entries) :
                                /\ entries[i].prop.type = "title"
                                /\ \A j \in 1..(i - 1) : entries[j].prop.type # "title"
                  IN  Def(OrElse(Def(richTextToPlain(Prop(entries[k].prop, "title"))),
                                 <<"Untitled">>))
             ELSE Def(<<"Untitled">>)

\* Def(the text of the first title property), or Undefined for null.
extractTitle(pg) ==
    IF ~IsDef(Prop(pg, "properties")) THEN Undefined
    ELSE LET entries == ObjectEntries(pg.properties)
         IN  IF \E i \in 1..Len(entries) : entries[i].prop.type = "title"
             THEN LET k == CHOOSE i \in 1..Len(entries) :
                                /\ entries[i].prop.type = "title"
                                /\ \A j \in 1..(i - 1) : entries[j].prop.type # "title"
                  IN  Def(richTextToPlain(Prop(entries[k].prop, "title")))
             ELSE Undefined

\* A slip that leaves the elements of a sequence unescaped.
formatPropertyValue_RawElements(v) ==
    IF v.t = "array"
    THEN IF Len(v.v) = 0 THEN <<"[]">>
         ELSE <<"[">> \o Join([i \in 1..Len(v.v) |-> StringOf(v.v[i])], ", ") \o <<"]">>
    ELSE IF v.t = "boolean" THEN (IF v.v THEN <<"true">> ELSE <<"false">>)
    ELSE IF v.t = "number" THEN StringOf(v)
    ELSE escapeValue(StringOf(v))

formatPropertyValue(v) ==
    IF v.t = "array"
    THEN IF Len(v.v) = 0 THEN <<"[]">>
         ELSE <<"[">> \o Join([i \in 1..Len(v.v) |-> escapeValue(StringOf(v.v[i]))], ", ")
                \o <<"]">>
    ELSE IF v.t = "boolean" THEN (IF v.v THEN <<"true">> ELSE <<"false">>)
    ELSE IF v.t = "number" THEN StringOf(v)
    ELSE escapeValue(StringOf(v))

\* Whether convertProperties skips an extracted value:
\* value === null || value === undefined || value === ''.
Skipped(v) == v.t \in {"null", "undefined"} \/ (v.t = "string" /\ v.v = <<>>)

RECURSIVE PropertyLines(_)
\* The loop of convertProperties over the entries.
PropertyLines(entries) ==
    IF entries = <<>> THEN <<>>
    ELSE LET name == Head(entries).name
             prop == Head(entries).prop
             v == extractPropertyValue(Def(prop))
         IN  (IF prop.type = "title" THEN <<>>
              ELSE IF Skipped(v) THEN <<>>
              ELSE <<name \o <<": ">> \o formatPropertyValue(v)>>)
                \o PropertyLines(Tail(entries))

\* A slip that lists the title among the properties.
convertProperties_KeepsTitle(properties) ==
    IF ~IsDef(properties) THEN <<>>
    ELSE LET entries == ObjectEntries(properties[1])
         IN  Flatten([i \in 1..Len(entries) |->
                LET v == extractPropertyValue(Def(entries[i].prop))
                IN  IF Skipped(v) THEN <<>>
                    ELSE <<entries[i].name \o <<": ">> \o formatPropertyValue(v)>>])

\* properties is an option: the property map, or Undefined.
convertProperties(properties) ==
    IF ~IsDef(properties) THEN <<>>
    ELSE PropertyLines(ObjectEntries(properties[1]))

\* A slip that writes the content header whatever the blocks produce.
ToonLines_AlwaysContent(pg, bs) ==
    LET meta == << <<"meta:">>,
                   <<"  ", "id: ">> \o Template(Prop(pg, "id")),
                   <<"  ", "created: ">> \o Template(Prop(pg, "created_time")),
                   <<"  ", "updated: ">> \o Template(Prop(pg, "last_edited_time")) >>
        title == extractTitle(pg)
        properties == convertProperties(Prop(pg, "properties"))
        content == convertBlocks(Def(bs), 0)
    IN  meta
        \o (IF OrElse(title, <<>>) # <<>>
            THEN << <<"  ", "title: ">> \o escapeValue(title[1]) >> ELSE <<>>)
        \o (IF Len(properties) > 0
            THEN << <<"properties:">> >> \o PrefixAll(<<"  ">>, properties) ELSE <<>>)
        \o << <<"content:">> >> \o PrefixAll(<<"  ">>, content)

\* The line list of convertToToon before the join.
ToonLines(pg, bs) ==
    LET meta == << <<"meta:">>,
                   <<"  ", "id: ">> \o Template(Prop(pg, "id")),
                   <<"  ", "created: ">> \o Template(Prop(pg, "created_time")),
                   <<"  ", "updated: ">> \o Template(Prop(pg, "last_edited_time")) >>
        title == extractTitle(pg)
        properties == convertProperties(Prop(pg, "properties"))
        content == convertBlocks(Def(bs), 0)
    IN  meta
        \o (IF OrElse(title, <<>>) # <<>>
            THEN << <<"  ", "title: ">> \o escapeValue(title[1]) >> ELSE <<>>)
        \o (IF Len(properties) > 0
            THEN << <<"properties:">> >> \o PrefixAll(<<"  ">>, properties) ELSE <<>>)
        \o (IF Len(content) > 0
            THEN << <<"content:">> >> \o PrefixAll(<<"  ">>, content) ELSE <<>>)

\* A slip that takes the header row off the table with rows.shift().
sliceReceiver_Shift(rows) == Tail(rows)

\* rows.slice(1) returns a new array: the receiver keeps its rows.
sliceReceiver(rows) == rows

\* A table block after formatTable: its row list is read with length, [0],
\* slice and for...of, and its rows and cells with map.
tableAfter(block) ==
    IF ~IsDef(Prop(block, "children")) \/ Len(block.children) = 0 THEN block
    ELSE IF OptChain(Prop(block, "table"), "has_column_header") = Def(TRUE)
    THEN [block EXCEPT !.children = sliceReceiver(@)]
    ELSE block

RECURSIVE blocksAfter(_)
\* The block list after convertBlocks: the converter pushes to its own line
\* and item lists only, so each block is as the calls made on it leave it: a
\* table as formatTable leaves it, and a block whose children are converted
\* with its children as their conversion leaves them.
blocksAfter(bs) ==
    [i \in 1..Len(bs) |->
        LET block == bs[i]
        IN  IF ~IsDef(Prop(block, "children")) THEN block
            ELSE IF block.type = "table" THEN tableAfter(block)
            ELSE IF block.type \in {"heading_1", "heading_2", "heading_3",
                                    "bulleted_list_item", "numbered_list_item", "to_do",
                                    "toggle", "quote", "callout", "synced_block"}
            THEN [block EXCEPT !.children = blocksAfter(@)]
            ELSE IF block.type = "column_list"
            THEN [block EXCEPT !.children =
                    [j \in 1..Len(block.children) |->
                        IF IsDef(Prop(block.children[j], "children"))
                        THEN [block.children[j] EXCEPT !.children = blocksAfter(@)]
                        ELSE block.children[j]]]
            ELSE block]

\* The page after convertToToon: its fields are read, and its property map is
\* listed by Object.entries into a new array.
pageAfter(pg) == pg

\* Whether a TypeError was raised while the lines were built.
Raised(ls) == \E i \in 1..Len(ls) : Includes(ls[i], TypeError)

convertToToon(pg, bs) == Join(ToonLines(pg, bs), NL)

-----------------------------------------------------------------------------
(* Bounds and inputs *)

\* escapeValue: the longest text tried.
MaxTextLen == 3

\* convertToToon: the longest top-level block list tried.
MaxBlocks == 2

\* convertToToon: the largest property map tried.
MaxProps == 2

Char == {"a", ",", ":", NL}

Texts == UNION {[1..n -> Char] : n \in 0..MaxTextLen}

\* A run list of one run.
RT(text) == <<[type |-> "text", plain_text |-> text]>>

Para(text) == [type |-> "paragraph", paragraph |-> [rich_text |-> RT(text)]]

Bullet(text) ==
    [type |-> "bulleted_list_item", bulleted_list_item |-> [rich_text |-> RT(text)]]

\* Blocks of the data model, fully and partially populated.
SampleBlocks ==
    { Para(<<"a">>),
      [type |-> "paragraph"],
      [type |-> "paragraph",
       paragraph |-> [rich_text |-> <<[type |-> "text", plain_text |-> <<"a">>],
                                      [type |-> "mention"],
                                      [type |-> "text", plain_text |-> <<NL, "b">>]>>]],
      [type |-> "heading_1", heading_1 |-> [rich_text |-> RT(<<"a", NL, "b">>)],
       children |-> <<Para(<<"b">>), [type |-> "exotic_widget"]>>],
      [type |-> "exotic_widget"],
      [type |-> "unsupported", children |-> <<Para(<<"a">>)>>],
      Bullet(<<"a">>),
      [type |-> "to_do"],
      [type |-> "divider"],
      [type |-> "table"],
      [type |-> "table", table |-> [has_column_header |-> TRUE],
       children |-> <<[type |-> "table_row"],
                      [type |-> "table_row", table_row |-> [cells |-> <<RT(<<"a">>)>>]]>>],
      [type |-> "synced_block"],
      [type |-> "image"],
      [type |-> "callout", callout |-> [rich_text |-> RT(<<"a">>)]],
      [type |-> "code", code |-> [language |-> <<"js">>]],
      [type |-> "column_list",
       children |-> <<[type |-> "column"],
                      [type |-> "column", children |-> <<[type |-> "exotic_widget"]>>]>>] }

\* One block of every other kind, fully or partially populated.
MoreBlocks ==
    { [type |-> "heading_2", heading_2 |-> [rich_text |-> RT(<<"a">>)]],
      [type |-> "heading_3"],
      [type |-> "numbered_list_item",
       numbered_list_item |-> [rich_text |-> RT(<<"a">>)],
       children |-> <<[type |-> "exotic_widget"]>>],
      [type |-> "toggle", toggle |-> [rich_text |-> RT(<<"a">>)],
       children |-> <<Bullet(<<"a">>), Bullet(<<"b">>)>>],
      [type |-> "quote", quote |-> [rich_text |-> <<>>]],
      [type |-> "code", code |-> [rich_text |-> RT(<<"a", NL, "b">>)]],
      [type |-> "callout",
       callout |-> [rich_text |-> RT(<<"a">>), icon |-> [emoji |-> <<"!">>]]],
      [type |-> "image", image |-> [external |-> [url |-> <<"u">>]]],
      [type |-> "image", image |-> [file |-> [url |-> <<"u">>], caption |-> RT(<<"c">>)]],
      [type |-> "video"],
      [type |-> "file", file |-> [name |-> <<"n">>]],
      [type |-> "file"],
      [type |-> "pdf"],
      [type |-> "bookmark", bookmark |-> [caption |-> RT(<<"c">>)]],
      [type |-> "bookmark"],
      [type |-> "link_preview"],
      [type |-> "embed", embed |-> [url |-> <<"u">>]],
      [type |-> "equation"],
      [type |-> "table_of_contents"],
      [type |-> "breadcrumb"],
      [type |-> "synced_block", children |-> <<[type |-> "exotic_widget"]>>],
      [type |-> "child_page"],
      [type |-> "child_database", child_database |-> [title |-> <<"D">>]],
      [type |-> "link_to_page", link_to_page |-> [database_id |-> <<"d">>]],
      [type |-> "column_list"] }

Forests ==
    UNION {[1..n -> SampleBlocks] : n \in 0..MaxBlocks} \cup {<<b>> : b \in MoreBlocks}

FewForests == {<<>>, <<Para(<<"a">>)>>, <<[type |-> "synced_block"]>>}

\* Property map entries of the data model, each under its own name.
SampleEntries ==
    { [name |-> <<"Name">>, prop |-> [type |-> "title", title |-> RT(<<"T">>)]],
      [name |-> <<"Nom">>, prop |-> [type |-> "title", title |-> <<>>]],
      [name |-> <<"Titel">>, prop |-> [type |-> "title"]],
      [name |-> <<"Tags">>, prop |-> [type |-> "multi_select", multi_select |-> <<>>]],
      [name |-> <<"Kind">>,
       prop |-> [type |-> "multi_select",
                 multi_select |-> <<[name |-> <<"x">>], [name |-> <<"y">>]>>]],
      [name |-> <<"Stage">>, prop |-> [type |-> "select"]],
      [name |-> <<"Phase">>, prop |-> [type |-> "select", select |-> [name |-> <<"s">>]]],
      [name |-> <<"Note">>, prop |-> [type |-> "rich_text", rich_text |-> <<>>]],
      [name |-> <<"Memo">>, prop |-> [type |-> "rich_text", rich_text |-> RT(<<"a", NL, "b">>)]],
      [name |-> <<"Cost">>, prop |-> [type |-> "number", number |-> JNull]],
      [name |-> <<"7">>, prop |-> [type |-> "number", number |-> JNum(0)]],
      [name |-> <<"3">>, prop |-> [type |-> "checkbox", checkbox |-> JBool(FALSE)]],
      [name |-> <<"Link">>, prop |-> [type |-> "url"]],
      [name |-> <<"Run">>, prop |-> [type |-> "button"]],
      [name |-> <<"Sum">>,
       prop |-> [type |-> "rollup",
                 rollup |-> [type |-> "array",
                             array |-> <<Undefined,
                                         Def([type |-> "number", number |-> JNum(12)]),
                                         Def([type |-> "select"])>>]]],
      [name |-> <<"Due">>, prop |-> [type |-> "date"]] }

\* One property of every other type, fully or partially populated.
MoreEntries ==
    { [name |-> <<"State">>, prop |-> [type |-> "status", status |-> [name |-> <<"s">>]]],
      [name |-> <<"When">>,
       prop |-> [type |-> "date", date |-> [start |-> <<"d1">>, end |-> <<"d2">>]]],
      [name |-> <<"Day">>, prop |-> [type |-> "date", date |-> [start |-> <<"d1">>]]],
      [name |-> <<"Who">>,
       prop |-> [type |-> "people",
                 people |-> <<[name |-> <<"n">>], [id |-> <<"i">>], [object |-> "user"]>>]],
      [name |-> <<"Team">>, prop |-> [type |-> "people"]],
      [name |-> <<"Docs">>,
       prop |-> [type |-> "files",
                 files |-> <<[name |-> <<"f">>], [external |-> [url |-> <<"u">>]],
                             [file |-> [url |-> <<"v">>]]>>]],
      [name |-> <<"Done">>, prop |-> [type |-> "checkbox", checkbox |-> JBool(TRUE)]],
      [name |-> <<"Site">>, prop |-> [type |-> "url", url |-> JStr(<<"u">>)]],
      [name |-> <<"Mail">>, prop |-> [type |-> "email", email |-> JNull]],
      [name |-> <<"Tel">>, prop |-> [type |-> "phone_number", phone_number |-> JStr(<<>>)]],
      [name |-> <<"Calc">>,
       prop |-> [type |-> "formula", formula |-> [type |-> "number", number |-> JNum(5)]]],
      [name |-> <<"Flag">>,
       prop |-> [type |-> "formula",
                 formula |-> [type |-> "boolean", boolean |-> JBool(FALSE)]]],
      [name |-> <<"Expr">>, prop |-> [type |-> "formula"]],
      [name |-> <<"Text">>,
       prop |-> [type |-> "formula", formula |-> [type |-> "string", string |-> JNull]]],
      [name |-> <<"Refs">>, prop |-> [type |-> "relation", relation |-> <<[id |-> <<"r">>]>>]],
      [name |-> <<"Roll">>, prop |-> [type |-> "rollup"]],
      [name |-> <<"Agg">>, prop |-> [type |-> "rollup", rollup |-> [type |-> "array"]]],
      [name |-> <<"Made">>,
       prop |-> [type |-> "created_time", created_time |-> JStr(<<"t1">>)]],
      [name |-> <<"By">>, prop |-> [type |-> "created_by", created_by |-> [id |-> <<"i">>]]],
      [name |-> <<"Edit">>, prop |-> [type |-> "last_edited_time"]],
      [name |-> <<"Editor">>, prop |-> [type |-> "last_edited_by"]],
      [name |-> <<"Key">>,
       prop |-> [type |-> "unique_id",
                 unique_id |-> [prefix |-> <<"K">>, number |-> JNum(4)]]],
      [name |-> <<"Seq">>, prop |-> [type |-> "unique_id", unique_id |-> [number |-> JNum(4)]]],
      [name |-> <<"Id">>, prop |-> [type |-> "unique_id"]] }

\* The data model has one title property in a property map.
PropertyMaps ==
    {m \in UNION {[1..n -> SampleEntries] : n \in 0..MaxProps} :
        /\ \A i, j \in 1..Len(m) : i # j => m[i].name # m[j].name
        /\ \A i, j \in 1..Len(m) :
                m[i].prop.type = "title" /\ m[j].prop.type = "title" => i = j}

PageOf(m) ==
    [id |-> <<"id1">>, created_time |-> <<"t1">>, last_edited_time |-> <<"t2">>,
     properties |-> m]

Pages ==
    {PageOf(m) : m \in PropertyMaps} \cup {PageOf(<<e>>) : e \in MoreEntries}
        \cup {[id |-> <<"id1">>, created_time |-> <<"t1">>, last_edited_time |-> <<"t2">>]}

FewPages ==
    { [id |-> <<"id1">>, created_time |-> <<"t1">>, last_edited_time |-> <<"t2">>],
      PageOf(<<[name |-> <<"Name">>, prop |-> [type |-> "title", title |-> RT(<<"T">>)]],
               [name |-> <<"Phase">>,
                prop |-> [type |-> "select", select |-> [name |-> <<"s">>]]]>>) }

Inputs == (Pages \X FewForests) \cup (FewPages \X Forests)

\* convertBlocks: the longest sibling list of list items tried.
MaxItems == 3

Numbered(text) ==
    [type |-> "numbered_list_item", numbered_list_item |-> [rich_text |-> RT(text)]]

Todo(text, checked) ==
    [type |-> "to_do", to_do |-> [rich_text |-> RT(text), checked |-> checked]]

\* List items with and without text, payload and children, and a paragraph.
ListSamples ==
    { Bullet(<<"a">>),
      Bullet(<<>>),
      [type |-> "bulleted_list_item",
       bulleted_list_item |-> [rich_text |-> RT(<<"b">>)],
       children |-> <<Para(<<"c">>)>>],
      [type |-> "bulleted_list_item",
       bulleted_list_item |-> [rich_text |-> RT(<<"d">>)],
       children |-> <<>>],
      Numbered(<<"a", NL, "b">>),
      Numbered(<<"c">>),
      Todo(<<"a">>, TRUE),
      [type |-> "to_do",
       to_do |-> [rich_text |-> RT(<<"b">>), checked |-> FALSE],
       children |-> <<Todo(<<"c">>, TRUE), [type |-> "to_do"]>>],
      [type |-> "to_do"],
      Para(<<"p">>) }

ListForests == UNION {[1..n -> ListSamples] : n \in 0..MaxItems}

barePage == [id |-> <<"id1">>, created_time |-> <<"t1">>, last_edited_time |-> <<"t2">>]

\* formatTable: the largest number of rows tried.
MaxRows == 3

Row(cells) == [type |-> "table_row", table_row |-> [cells |-> cells]]

\* Table rows: full, with a newline in a cell, with a run list of two runs,
\* with no cell, and with no cell list.
RowSamples ==
    { Row(<<RT(<<"a">>), RT(<<"b", ",">>)>>),
      Row(<<RT(<<"c", NL, "d">>)>>),
      Row(<<RT(<<"e">>) \o RT(<<"f">>), <<>>, RT(<<"g">>)>>),
      Row(<<>>),
      [type |-> "table_row"] }

RowLists == UNION {[1..n -> RowSamples] : n \in 0..MaxRows}

\* Tables with the column-header flag set, not set and missing.
TableSamples ==
    {[type |-> "table", table |-> [has_column_header |-> h], children |-> rows] :
        h \in BOOLEAN, rows \in RowLists}
    \cup {[type |-> "table", children |-> rows] : rows \in RowLists}
    \cup {[type |-> "table"], [type |-> "table", table |-> [has_column_header |-> TRUE]]}

\* A table at the top level, and a table one level down.
TableForests ==
    {<<t>> : t \in TableSamples}
        \cup {<<[type |-> "heading_2", children |-> <<t>>]>> : t \in TableSamples}

noPage == [id |-> <<>>]

-----------------------------------------------------------------------------
(* The calls *)

noRemote == [page |-> noPage]

\* The locals of extractPageToToon and of testApiConnection before they are set.
noFetch ==
    [apiKey |-> Undefined, pageId |-> Undefined, page |-> Undefined,
     blocks |-> Undefined, error |-> Undefined]

\* The service worker has received no message.
WorkerOff ==
    /\ storage = Undefined
    /\ remote = noRemote
    /\ request = Undefined
    /\ at = "idle"
    /\ pageCall = "none"
    /\ blocksCall = "none"
    /\ frames = <<>>
    /\ fetched = noFetch
    /\ responses = <<>>
    /\ failures = 0
    /\ handled = 0

\* No scan is followed step by step.
ScanOff ==
    /\ scanAt = 0
    /\ calls = <<>>

InitEscape ==
    /\ WorkerOff
    /\ ScanOff
    /\ value \in Texts
    /\ escaped = <<>>
    /\ page = noPage
    /\ blocks = <<>>
    /\ lines = <<>>
    /\ toon = <<>>
    /\ pc = "ready"

\* One call escapeValue(value).
Escape ==
    /\ pc = "ready"
    /\ escaped' = escapeValue(value)
    /\ pc' = "done"
    /\ UNCHANGED <<value, page, blocks, lines, toon, wvars, svars>>

NextEscape == Escape

SpecEscape == InitEscape /\ [][NextEscape]_vars

Init ==
    /\ WorkerOff
    /\ ScanOff
    /\ \E in \in Inputs : page = in[1] /\ blocks = in[2]
    /\ value = <<>>
    /\ escaped = <<>>
    /\ lines = <<>>
    /\ toon = <<>>
    /\ pc = "ready"

\* One call convertToToon(page, blocks): it returns the string, or it throws.
Convert ==
    /\ pc = "ready"
    /\ IF Raised(ToonLines(page, blocks))
       THEN pc' = "threw" /\ UNCHANGED <<lines, toon>>
       ELSE /\ pc' = "done"
            /\ lines' = ToonLines(page, blocks)
            /\ toon' = convertToToon(page, blocks)
    /\ page' = pageAfter(page)
    /\ blocks' = blocksAfter(blocks)
    /\ UNCHANGED <<value, escaped, wvars, svars>>

InitList ==
    /\ WorkerOff
    /\ ScanOff
    /\ page = barePage
    /\ blocks \in ListForests
    /\ value = <<>>
    /\ escaped = <<>>
    /\ lines = <<>>
    /\ toon = <<>>
    /\ pc = "ready"

NextList == Convert

SpecList == InitList /\ [][NextList]_vars

InitTable ==
    /\ WorkerOff
    /\ ScanOff
    /\ page = barePage
    /\ blocks \in TableForests
    /\ value = <<>>
    /\ escaped = <<>>
    /\ lines = <<>>
    /\ toon = <<>>
    /\ pc = "ready"

NextTable == Convert

SpecTable == InitTable /\ [][NextTable]_vars

Next == Convert

Spec == Init /\ [][Next]_vars

-----------------------------------------------------------------------------
(* C3 *)

FirstNewline(s) == CHOOSE i \in 1..Len(s) : s[i] = NL /\ \A j \in 1..(i - 1) : s[j] # NL

\* C3: escapeValue returns a text without newline unchanged (commas and colons
\* kept), and a text with a newline as the part before the first newline
\* followed by the three characters "...".
EscapeValueRule ==
    pc = "done" =>
        IF \A i \in 1..Len(value) : value[i] # NL
        THEN escaped = value
        ELSE /\ Len(escaped) = FirstNewline(value) + 2
             /\ \A i \in 1..(FirstNewline(value) - 1) : escaped[i] = value[i]
             /\ \A i \in FirstNewline(value)..(FirstNewline(value) + 2) : escaped[i] = "."

\* A text with a comma, a colon and, after them, a newline has been escaped.
EscapeValueWitness ==
    /\ pc = "done"
    /\ value = <<",", ":", NL>>
    /\ escaped = <<",", ":", ".", ".", ".">>

-----------------------------------------------------------------------------
(* C1 *)

Range(f) == {f[i] : i \in DOMAIN f}

\* The section headers of a line list: its lines that are not indented.
Headers(ls) == SelectSeq(ls, LAMBDA l : l = <<>> \/ l[1] # "  ")

\* The lines that follow the header h up to the next header.
SectionBody(ls, h) ==
    LET k == CHOOSE i \in 1..Len(ls) : ls[i] = h
        stop == IF \E i \in (k + 1)..Len(ls) : Headers(<<ls[i]>>) # <<>>
                THEN CHOOSE i \in (k + 1)..Len(ls) :
                        /\ Headers(<<ls[i]>>) # <<>>
                        /\ \A j \in (k + 1)..(i - 1) : Headers(<<ls[j]>>) = <<>>
                ELSE Len(ls) + 1
    IN  SubSeq(ls, k + 1, stop - 1)

\* C1: the sections come in the order meta, properties, content: the first line
\* of the returned string is "meta:", the header "properties:" is there exactly
\* when a property line is produced and "content:" exactly when the blocks
\* produce a line, each header at most once, each followed by its lines.
SectionOrder ==
    pc = "done" =>
        /\ Split(toon, NL)[1] = <<"meta:">>
        /\ Headers(lines) \in { << <<"meta:">> >>,
                                << <<"meta:">>, <<"properties:">> >>,
                                << <<"meta:">>, <<"content:">> >>,
                                << <<"meta:">>, <<"properties:">>, <<"content:">> >> }
        /\ <<"properties:">> \in Range(lines)
                <=> convertProperties(Prop(page, "properties")) # <<>>
        /\ <<"properties:">> \in Range(lines) =>
                SectionBody(lines, <<"properties:">>)
                    = PrefixAll(<<"  ">>, convertProperties(Prop(page, "properties")))
        /\ <<"content:">> \in Range(lines) <=> convertBlocks(Def(blocks), 0) # <<>>
        /\ <<"content:">> \in Range(lines) =>
                SectionBody(lines, <<"content:">>)
                    = PrefixAll(<<"  ">>, convertBlocks(Def(blocks), 0))
        /\ blocks = <<>> => <<"content:">> \notin Range(lines)

\* A page with a property line and a block list whose one block produces no
\* line has been converted: properties, and no content section.
SectionOrderWitness ==
    /\ pc = "done"
    /\ blocks = <<[type |-> "synced_block"]>>
    /\ Headers(lines) = << <<"meta:">>, <<"properties:">> >>

-----------------------------------------------------------------------------
(* C2 *)

ListKinds == {"bulleted_list_item", "numbered_list_item", "to_do"}

\* The content section of a line list, one indent removed.
Content(ls) ==
    IF <<"content:">> \in Range(ls)
    THEN LET body == SectionBody(ls, <<"content:">>)
         IN  [i \in 1..Len(body) |-> Tail(body[i])]
    ELSE <<>>

\* The length of the maximal run of blocks of the kind of bs[1] that starts bs.
RunLength(bs) ==
    CHOOSE n \in 1..Len(bs) :
        /\ \A j \in 1..n : bs[j].type = bs[1].type
        /\ n < Len(bs) => bs[n + 1].type # bs[1].type

ItemText(item) == richTextToPlain(OptChain(Prop(item, item.type), "rich_text"))

ItemChecked(item) ==
    IF OptChain(Prop(item, "to_do"), "checked") = Def(TRUE) THEN "[x]" ELSE "[ ]"

ItemHasChildren(item) == "children" \in DOMAIN item /\ item.children # <<>>

\* The per-item marker: "- ", "# ", or "[x] " / "[ ] ".
ItemMarker(item) ==
    IF item.type = "bulleted_list_item" THEN <<"- ">>
    ELSE IF item.type = "numbered_list_item" THEN <<"# ">>
    ELSE <<ItemChecked(item), " ">>

TabularLabel(kind) ==
    IF kind = "bulleted_list_item" THEN <<"items", "[">>
    ELSE IF kind = "numbered_list_item" THEN <<"list", "[">>
    ELSE <<"todos", "[">>

RECURSIVE GroupedLines(_, _, _)
\* The lines the grouping rule gives for the siblings bs at depth d.  A block
\* that is no list item is converted on its own.  With everyItem, the per-item
\* form has a line for every item; without, an item whose text is empty has no
\* line of its own.
GroupedLines(bs, d, everyItem) ==
    IF bs = <<>> THEN <<>>
    ELSE IF bs[1].type \notin ListKinds
    THEN convertBlock(bs[1], d) \o GroupedLines(Tail(bs), d, everyItem)
    ELSE
        LET n == RunLength(bs)
            run == SubSeq(bs, 1, n)
            tabular == n >= 2 /\ \A j \in 1..n : ~ItemHasChildren(run[j])
            header == Indent(d) \o TabularLabel(bs[1].type) \o Decimal(n) \o <<"]:">>
            row(item) ==
                Indent(d + 1)
                    \o (IF item.type = "to_do" THEN <<ItemChecked(item), " ">> ELSE <<>>)
                    \o escapeValue(ItemText(item))
            own(item) ==
                IF everyItem \/ ItemText(item) # <<>>
                THEN <<Indent(d) \o ItemMarker(item) \o escapeValue(ItemText(item))>>
                ELSE <<>>
            below(item) ==
                IF "children" \in DOMAIN item
                THEN GroupedLines(item.children, d + 1, everyItem) ELSE <<>>
        IN  (IF tabular
             THEN <<header>> \o [j \in 1..n |-> row(run[j])]
             ELSE Flatten([j \in 1..n |-> own(run[j]) \o below(run[j])]))
                \o GroupedLines(SubSeq(bs, n + 1, Len(bs)), d, everyItem)

\* C2 as stated: a maximal run of one list kind is in tabular form exactly when
\* it has two items or more and no item has children; otherwise every item is
\* emitted in per-item form, followed by its children one level deeper.
ListGroupingAsStated ==
    pc = "done" => Content(lines) = GroupedLines(blocks, 0, TRUE)

\* C2 as amended: the same, where the per-item form of an item whose text is
\* empty has no line of its own (its children are still emitted).
ListGrouping ==
    pc = "done" => Content(lines) = GroupedLines(blocks, 0, FALSE)

\* A run of two to_do items, one with children, has been converted item by
\* item, and the two childless to_do items below it in tabular form.
ListGroupingWitness ==
    /\ pc = "done"
    /\ Len(blocks) = 2
    /\ blocks[2] = [type |-> "to_do"]
    /\ Content(lines) = << <<"[ ]", " ", "b">>,
                           <<"  ", "todos", "[", "2", "]:">>,
                           <<"  ", "  ", "[x]", " ", "c">>,
                           <<"  ", "  ", "[ ]", " ">> >>

-----------------------------------------------------------------------------
(* C4 *)

\* The table under conversion and its depth.
TheTable == IF blocks[1].type = "table" THEN blocks[1] ELSE blocks[1].children[1]

TableDepth == IF blocks[1].type = "table" THEN 0 ELSE 1

TableRows(t) == IF "children" \in DOMAIN t THEN t.children ELSE <<>>

HeaderFlag(t) ==
    /\ "table" \in DOMAIN t
    /\ "has_column_header" \in DOMAIN t.table
    /\ t.table.has_column_header

\* The cells of a row, each rendered to plain text and escaped.
CellTexts(row) ==
    IF "table_row" \in DOMAIN row /\ "cells" \in DOMAIN row.table_row
    THEN [i \in 1..Len(row.table_row.cells) |->
            escapeValue(richTextToPlain(Def(row.table_row.cells[i])))]
    ELSE <<>>

RECURSIVE CommaJoined(_)
CommaJoined(texts) ==
    IF texts = <<>> THEN <<>>
    ELSE IF Len(texts) = 1 THEN texts[1]
    ELSE texts[1] \o <<",">> \o CommaJoined(Tail(texts))

\* C4: a table with no rows is the one line "table[0]:"; otherwise the first row
\* is the header list and no data row when the column-header flag is set, the
\* header line is "table[n]{h1,...}:" with headers and "table[n]:" without,
\* n the number of data rows, and n lines follow, one per data row in input
\* order, one indent deeper, the cells joined with commas.
TableFormat ==
    pc = "done" =>
        LET t == TheTable
            d == TableDepth
            rows == TableRows(t)
            out == Content(lines)
            headers == IF HeaderFlag(t) THEN CellTexts(rows[1]) ELSE <<>>
            data == IF HeaderFlag(t) THEN Tail(rows) ELSE rows
            n == Len(data)
        IN  IF rows = <<>>
            THEN out = <<Indent(d) \o <<"table[", "0", "]:">>>>
            ELSE /\ Len(out) = n + 1
                 /\ out[1] = IF headers # <<>>
                             THEN Indent(d) \o <<"table[">> \o Decimal(n) \o <<"]{">>
                                    \o CommaJoined(headers) \o <<"}:">>
                             ELSE Indent(d) \o <<"table[">> \o Decimal(n) \o <<"]:">>
                 /\ \A k \in 1..n :
                        out[k + 1] = Indent(d + 1) \o CommaJoined(CellTexts(data[k]))

\* A table with the header flag, a header row of two cells and two data rows
\* has been converted.
TableFormatWitness ==
    /\ pc = "done"
    /\ blocks[1].type = "table"
    /\ HeaderFlag(TheTable)
    /\ Content(lines) = << <<"table[", "2", "]{", "a", ",", "b", ",", "}:">>,
                           <<"  ", "c", ".", ".", ".">>,
                           <<"  ", "e", "f", ",", ",", "g">> >>

-----------------------------------------------------------------------------
(* C5 *)

\* The entries of the page's property map, none when the map is missing.
PageEntries == IF "properties" \in DOMAIN page THEN page.properties ELSE <<>>

\* Every property is the title, or has a null (or undefined) value, or an
\* empty text and, with sequencesToo, or an empty sequence.
AllEmpty(entries, sequencesToo) ==
    \A i \in 1..Len(entries) :
        LET v == extractPropertyValue(Def(entries[i].prop))
        IN  \/ entries[i].prop.type = "title"
            \/ v.t \in {"null", "undefined"}
            \/ v.t = "string" /\ v.v = <<>>
            \/ sequencesToo /\ v.t = "array" /\ v.v = <<>>

\* C5 as stated: a property map whose properties are each the title, null,
\* an empty text or an empty sequence gives no properties section.
NoEmptyPropertiesAsStated ==
    pc = "done" /\ AllEmpty(PageEntries, TRUE) => <<"properties:">> \notin Range(lines)

\* C5 as amended: a property map whose properties are each the title, null or
\* undefined, or an empty text gives no properties section (an empty sequence
\* is a value: it gives the line "name: []").
NoEmptyProperties ==
    pc = "done" /\ AllEmpty(PageEntries, FALSE) => <<"properties:">> \notin Range(lines)

\* A page with a title and an empty text property has been converted.
NoEmptyPropertiesWitness ==
    /\ pc = "done"
    /\ Len(PageEntries) = 2
    /\ PageEntries[1].prop.type = "title"
    /\ PageEntries[2].prop = [type |-> "rich_text", rich_text |-> <<>>]
    /\ Headers(lines) = << <<"meta:">> >>

-----------------------------------------------------------------------------
(* C6 *)

RECURSIVE RunsText(_)
\* The concatenation of the texts of a run list.
RunsText(runs) ==
    IF runs = <<>> THEN <<>>
    ELSE (IF "plain_text" \in DOMAIN Head(runs) THEN Head(runs).plain_text ELSE <<>>)
            \o RunsText(Tail(runs))

\* The property map has a title property whose runs give a text that is not empty.
HasTitleText ==
    \E i \in 1..Len(PageEntries) :
        /\ PageEntries[i].prop.type = "title"
        /\ "title" \in DOMAIN PageEntries[i].prop
        /\ RunsText(PageEntries[i].prop.title) # <<>>

MetaBody == SectionBody(lines, <<"meta:">>)

\* C6: the meta section has a title line exactly when the property map has a
\* title property with a text that is not empty; otherwise it is the id,
\* created and updated lines and nothing else.
TitleLine ==
    pc = "done" =>
        /\ SubSeq(MetaBody, 1, 3) = << <<"  ", "id: ">> \o page.id,
                                       <<"  ", "created: ">> \o page.created_time,
                                       <<"  ", "updated: ">> \o page.last_edited_time >>
        /\ (\E i \in 1..Len(MetaBody) : MetaBody[i][2] = "title: ") <=> HasTitleText
        /\ Len(MetaBody) = IF HasTitleText THEN 4 ELSE 3
        /\ HasTitleText => MetaBody[4][2] = "title: "

\* A page whose title property has no text has been converted.
TitleLineWitness ==
    /\ pc = "done"
    /\ Len(PageEntries) > 0
    /\ PageEntries[1].prop = [type |-> "title", title |-> <<>>]
    /\ Len(MetaBody) = 3

-----------------------------------------------------------------------------
(* C7 *)

\* The kinds the converter recognises: the cases of convertBlock, and table.
RecognisedKinds ==
    {"paragraph", "heading_1", "heading_2", "heading_3", "bulleted_list_item",
     "numbered_list_item", "to_do", "toggle", "code", "quote", "callout", "divider",
     "image", "video", "file", "pdf", "bookmark", "link_preview", "embed", "equation",
     "table_of_contents", "breadcrumb", "column_list", "synced_block", "child_page",
     "child_database", "link_to_page", "table"}

\* The kinds whose children are converted one level deeper.
DeeperKinds ==
    {"heading_1", "heading_2", "heading_3", "bulleted_list_item", "numbered_list_item",
     "to_do", "toggle", "quote", "callout"}

ChildrenOf(b) == IF "children" \in DOMAIN b THEN b.children ELSE <<>>

RECURSIVE Sum(_)
Sum(ns) == IF ns = <<>> THEN 0 ELSE Head(ns) + Sum(Tail(ns))

RECURSIVE UnknownCount(_)
\* The number of blocks of an unrecognised kind among the blocks the converter
\* dispatches: the siblings bs and, below them, the children it descends into.
UnknownCount(bs) ==
    Sum([i \in 1..Len(bs) |->
        IF bs[i].type \notin RecognisedKinds THEN 1
        ELSE IF bs[i].type \in DeeperKinds \cup {"synced_block"}
        THEN UnknownCount(ChildrenOf(bs[i]))
        ELSE IF bs[i].type = "column_list"
        THEN Sum([j \in 1..Len(ChildrenOf(bs[i])) |->
                    UnknownCount(ChildrenOf(ChildrenOf(bs[i])[j]))])
        ELSE 0])

RECURSIVE UnknownInPlace(_, _)
\* Every block of an unrecognised kind among the dispatched blocks gives the one
\* line "[kind]" at its depth, between the lines of the siblings before it and
\* the lines of the siblings after it.
UnknownInPlace(bs, d) ==
    \A i \in 1..Len(bs) :
        /\ bs[i].type \notin RecognisedKinds =>
                convertBlocks(Def(bs), d)
                    = convertBlocks(Def(SubSeq(bs, 1, i - 1)), d)
                        \o <<Indent(d) \o <<"[", bs[i].type, "]">>>>
                        \o convertBlocks(Def(SubSeq(bs, i + 1, Len(bs))), d)
        /\ bs[i].type \in DeeperKinds => UnknownInPlace(ChildrenOf(bs[i]), d + 1)
        /\ bs[i].type = "synced_block" => UnknownInPlace(ChildrenOf(bs[i]), d)
        /\ bs[i].type = "column_list" =>
                \A j \in 1..Len(ChildrenOf(bs[i])) :
                    UnknownInPlace(ChildrenOf(ChildrenOf(bs[i])[j]), d + 1)

\* The first token of a line after its indentation.
FirstToken(l) ==
    IF \A i \in 1..Len(l) : l[i] = "  " THEN ""
    ELSE l[CHOOSE i \in 1..Len(l) : l[i] # "  " /\ \A j \in 1..(i - 1) : l[j] = "  "]

\* C7: a block of an unrecognised kind the converter comes to gives exactly one
\* line "[kind]" at its depth, the call returns, and the siblings after it are
\* converted.
UnknownKind ==
    /\ pc # "threw"
    /\ pc = "done" =>
        /\ Content(lines) = convertBlocks(Def(blocks), 0)
        /\ UnknownInPlace(blocks, 0)
        /\ Cardinality({i \in 1..Len(Content(lines)) : FirstToken(Content(lines)[i]) = "["})
                = UnknownCount(blocks)

\* A block of an unknown kind followed by a paragraph has been converted.
UnknownKindWitness ==
    /\ pc = "done"
    /\ blocks = <<[type |-> "exotic_widget"], Para(<<"a">>)>>
    /\ Content(lines) = << <<"[", "exotic_widget", "]">>, <<"p: ", "a">> >>

-----------------------------------------------------------------------------
(* C8 *)

\* C8: convertToToon returns a string and raises no error, also for records
\* that lack their property map, payload, rich text, URL, icon, children or
\* table cells.
NeverThrows ==
    /\ pc # "threw"
    /\ pc = "done" => toon = Join(lines, NL) /\ ~Includes(toon, TypeError)

\* A page without property map whose blocks lack their payload has been
\* converted.
NeverThrowsWitness ==
    /\ pc = "done"
    /\ "properties" \notin DOMAIN page
    /\ blocks = <<[type |-> "paragraph"], [type |-> "image"]>>
    /\ Content(lines) = << <<"image: ">> >>

-----------------------------------------------------------------------------
(* Page identifiers.  A run of 32 hexadecimal digits and a dashed UUID are    *)
(* one token each; the other tokens of a URL are its scheme, the pieces of    *)
(* its host, "/", "?" and the pieces of its path and query.                   *)

Hex32 ==
    {"0123456789abcdef0123456789abcdef", "0123456789ABCDEF0123456789ABCDEF",
     "ffffffffffffffffffffffffffffffff"}

Uuids ==
    {"01234567-89ab-cdef-0123-456789abcdef", "01234567-89AB-CDEF-0123-456789ABCDEF",
     "ffffffff-ffff-ffff-ffff-ffffffffffff"}

\* String.prototype.toLowerCase on an identifier token.
toLowerCase(tok) ==
    CASE tok = "0123456789ABCDEF0123456789ABCDEF" -> "0123456789abcdef0123456789abcdef"
      [] tok = "01234567-89AB-CDEF-0123-456789ABCDEF" -> "01234567-89ab-cdef-0123-456789abcdef"
      [] OTHER -> tok

\* The five slices of a lower-case run, joined with dashes.
formatAsUuid(hex) ==
    CASE toLowerCase(hex) = "0123456789abcdef0123456789abcdef" ->
             "01234567-89ab-cdef-0123-456789abcdef"
      [] toLowerCase(hex) = "ffffffffffffffffffffffffffffffff" ->
             "ffffffff-ffff-ffff-ffff-ffffffffffff"

RECURSIVE trim(_)
\* String.prototype.trim
trim(s) ==
    IF s # <<>> /\ Head(s) = " " THEN trim(Tail(s))
    ELSE IF s # <<>> /\ s[Len(s)] = " " THEN trim(SubSeq(s, 1, Len(s) - 1))
    ELSE s

\* The first position of s, from position from on, that holds one of toks.
IndexOfAny(s, toks, from) ==
    IF \E i \in from..Len(s) : s[i] \in toks
    THEN CHOOSE i \in from..Len(s) :
             s[i] \in toks /\ \A j \in from..(i - 1) : s[j] \notin toks
    ELSE Len(s) + 1

\* new URL(input): the host name and the path of an absolute URL; undefined
\* where the constructor throws.
URL(input) ==
    IF Len(input) >= 2 /\ input[1] \in {"https://", "http://"}
                       /\ input[2] \notin {"/", "?", " "}
    THEN LET h == IndexOfAny(input, {"/", "?"}, 2)
             q == IndexOfAny(input, {"?"}, 2)
         IN  Def([hostname |-> SubSeq(input, 2, h - 1),
                  pathname |-> IF h = q THEN <<"/">> ELSE SubSeq(input, h, q - 1)])
    ELSE Undefined

\* segments.filter(s => s.length > 0)
NonEmpty(segments) == SelectSeq(segments, LAMBDA s : Len(s) > 0)

\* input.match(/([a-f0-9]{32})$/i): the run the string ends with, if any.
EndsWith(s, toks) == IF s # <<>> /\ s[Len(s)] \in toks THEN Def(s[Len(s)]) ELSE Undefined

\* The page identifier of a Notion URL or of a bare identifier; undefined for
\* the null returned on anything else.  A missing input is undefined.
extractPageId(arg) ==
    IF ~IsDef(arg) \/ arg[1] = <<>> THEN Undefined
    ELSE LET input == trim(arg[1])
         IN  IF Len(input) = 1 /\ input[1] \in Uuids THEN Def(toLowerCase(input[1]))
             ELSE IF Len(input) = 1 /\ input[1] \in Hex32 THEN Def(formatAsUuid(input[1]))
             ELSE IF IsDef(URL(input))
             THEN LET url == URL(input)[1]
                      segments == NonEmpty(Split(url.pathname, "/"))
                  IN  IF ~Includes(url.hostname, "notion.so")
                         /\ ~Includes(url.hostname, "notion.site") THEN Undefined
                      ELSE IF Len(segments) = 0 THEN Undefined
                      ELSE LET cleanSegment == Split(segments[Len(segments)], "?")[1]
                               idMatch == EndsWith(cleanSegment, Hex32)
                               uuidMatch == EndsWith(cleanSegment, Uuids)
                           IN  IF IsDef(idMatch) THEN Def(formatAsUuid(idMatch[1]))
                               ELSE IF IsDef(uuidMatch) THEN Def(toLowerCase(uuidMatch[1]))
                               ELSE Undefined
             ELSE LET idMatch == EndsWith(input, Hex32)
                  IN  IF IsDef(idMatch) THEN Def(formatAsUuid(idMatch[1])) ELSE Undefined

-----------------------------------------------------------------------------
(* The Notion API, as the client of notion-api.js sees it. *)

\* The number of results the API gives in one response.
PageSize == 2

\* What fetch and the status check of request make of a response that is not
\* a success: an API error with a message, one whose body is not JSON, and a
\* rejected fetch.
Failures ==
    {[name |-> "NotionApiError", status |-> 401,
      body |-> Def([message |-> <<"API token is invalid.">>, code |-> "unauthorized"])],
     [name |-> "NotionApiError", status |-> 500, body |-> Undefined],
     [name |-> "TypeError"]}

\* The error request throws: for a status that is not ok,
\* new NotionApiError(error.message || `API error: ${status}`, status, code),
\* the body being {} when it is not JSON.
RequestError(failure) ==
    IF failure.name = "TypeError" THEN [name |-> "TypeError", message |-> <<"Failed to fetch">>]
    ELSE [name |-> "NotionApiError",
          message |-> OrElse(OptChain(failure.body, "message"),
                             <<"API error: ">> \o Decimal(failure.status)),
          status |-> failure.status]

\* The outcomes of one request made with a token: any failure, and the
\* answer when the token is the workspace's and the object exists.
Outcomes(apiKey, exists) ==
    {[ok |-> FALSE, failure |-> f] : f \in Failures}
        \cup (IF apiKey = remote.token /\ exists THEN {[ok |-> TRUE]} ELSE {})

\* The answer to GET /blocks/{id}/children: the results after the cursor, a
\* cursor being the number of results already given.
ChildrenResponse(blockId, cursor) ==
    LET all == remote.children[blockId]
        from == IF IsDef(cursor) THEN cursor[1] ELSE 0
        upto == IF from + PageSize < Len(all) THEN from + PageSize ELSE Len(all)
    IN  [results |-> SubSeq(all, from + 1, upto),
         has_more |-> upto < Len(all),
         next_cursor |-> upto]

\* getAllBlocks(blockId) at its first request.
NewFrame(blockId) ==
    [blockId |-> blockId, cursor |-> Undefined, allBlocks |-> <<>>,
     results |-> <<>>, has_more |-> FALSE, next_cursor |-> 0, st |-> "request"]

RECURSIVE ForResults_SkipsChildren(_)
\* A slip that never fetches the children of a block.
ForResults_SkipsChildren(fr) ==
    IF fr.results = <<>>
    THEN IF fr.has_more /\ fr.next_cursor # 0
         THEN [fr EXCEPT !.cursor = Def(fr.next_cursor), !.st = "request"]
         ELSE [fr EXCEPT !.cursor = Undefined, !.st = "return"]
    ELSE ForResults_SkipsChildren([fr EXCEPT !.allBlocks = Append(@, Head(fr.results)),
                                             !.results = Tail(@)])

RECURSIVE ForResults(_)
\* The loop over response.results from its current block on, up to the next
\* await of the call: the call of getAllBlocks for a block with children
\* (st "child", the block staying at the head of results), the next request
\* of the do/while (st "request"), or the return of allBlocks (st "return").
ForResults(fr) ==
    IF fr.results = <<>>
    THEN IF fr.has_more /\ fr.next_cursor # 0
         THEN [fr EXCEPT !.cursor = Def(fr.next_cursor), !.st = "request"]
         ELSE [fr EXCEPT !.cursor = Undefined, !.st = "return"]
    ELSE LET block == Head(fr.results)
         IN  IF Prop(block, "has_children") = Def(TRUE)
             THEN [fr EXCEPT !.allBlocks = Append(@, block), !.st = "child"]
             ELSE ForResults([fr EXCEPT !.allBlocks = Append(@, block),
                                        !.results = Tail(@)])

\* block.children = children, for the block pushed last.
AttachChildren(fr, children) ==
    [fr EXCEPT !.allBlocks[Len(fr.allBlocks)] = [children |-> children] @@ @,
               !.results = Tail(@)]

\* The call stack once the innermost call has run to its next await: a call
\* for a block's children is entered and runs to its first request.
Entered(stack, fr) ==
    IF fr.st = "child"
    THEN Append(Append(stack, fr), NewFrame(Head(fr.results).id))
    ELSE Append(stack, fr)

\* The service worker's extractTitle(page).
workerExtractTitle(pg) ==
    IF ~IsDef(Prop(pg, "properties")) THEN <<"Untitled">>
    ELSE LET entries == ObjectEntries(pg.properties)
             titles == SelectSeq(entries,
                           LAMBDA e : Prop(e.prop, "type") = Def("title")
                                      /\ IsDef(Prop(e.prop, "title")))
         IN  IF titles = <<>> THEN <<"Untitled">>
             ELSE LET text == Flatten([i \in 1..Len(titles[1].prop.title) |->
                                  OrElse(Prop(titles[1].prop.title[i], "plain_text"), <<>>)])
                  IN  IF text = <<>> THEN <<"Untitled">> ELSE text

\* The response of the listener's catch clause.
ErrorResponse(error) ==
    [success |-> FALSE,
     error |-> OrElse(Prop(error, "message"), <<"An unknown error occurred">>)]

-----------------------------------------------------------------------------
(* Workspaces and messages *)

MaxMessages == 2

PageUuid == "01234567-89ab-cdef-0123-456789abcdef"

ApiKeys == {"secret_ok", "secret_old", ""}

\* A block as the API lists it: with its id, and with has_children when hc
\* is defined.
Listed(id, hc, block) ==
    IF IsDef(hc) THEN [id |-> id, has_children |-> hc[1]] @@ block
    ELSE [id |-> id] @@ block

remotePage ==
    [id |-> <<PageUuid>>, created_time |-> <<"t1">>, last_edited_time |-> <<"t2">>,
     properties |-> <<[name |-> <<"Name">>,
                       prop |-> [type |-> "title", title |-> RT(<<"T", NL, "a">>)]],
                      [name |-> <<"Done">>,
                       prop |-> [type |-> "checkbox", checkbox |-> JBool(FALSE)]]>>]

\* A page of three blocks whose second has children, one of which has a
\* child; an empty page; a page whose only block has three children, the
\* last reported with children and having none.
Workspaces ==
    {[token |-> "secret_ok", page |-> remotePage, user |-> [id |-> <<"u1">>],
      children |->
          [id \in {PageUuid, "b2", "c2"} |->
              CASE id = PageUuid ->
                       <<Listed("b1", Def(FALSE), Para(<<"a">>)),
                         Listed("b2", Def(TRUE),
                                [type |-> "toggle", toggle |-> [rich_text |-> RT(<<"b">>)]]),
                         Listed("b3", Undefined, Bullet(<<"c">>))>>
                [] id = "b2" ->
                       <<Listed("c1", Def(FALSE), Para(<<"d">>)),
                         Listed("c2", Def(TRUE),
                                [type |-> "heading_1",
                                 heading_1 |-> [rich_text |-> RT(<<"e">>)]])>>
                [] id = "c2" -> <<Listed("d1", Def(FALSE), Para(<<"f">>))>>]],
     [token |-> "secret_ok", page |-> [remotePage EXCEPT !.properties = <<>>],
      user |-> [id |-> <<"u1">>, name |-> <<"Bot">>],
      children |-> [id \in {PageUuid} |-> <<>>]],
     [token |-> "secret_ok", page |-> remotePage, user |-> [id |-> <<"u1">>, name |-> <<>>],
      children |->
          [id \in {PageUuid, "b1", "c3"} |->
              CASE id = PageUuid -> <<Listed("b1", Def(TRUE), Bullet(<<"a">>))>>
                [] id = "b1" ->
                       <<Listed("c1", Def(FALSE), Bullet(<<"b">>)),
                         Listed("c2", Def(FALSE), Bullet(<<"c">>)),
                         Listed("c3", Def(TRUE), Para(<<"d">>))>>
                [] id = "c3" -> <<>>]]}

\* The url of a message: a Notion URL with a title and a query, a dashed
\* identifier in capitals, the URL of a page the workspace does not hold,
\* the URL of another site, a Notion URL without a path, a text, and none.
UrlInputs ==
    {Def(<<"https://", "www.", "notion.so", "/", "team", "/", "My-Page-",
           "0123456789abcdef0123456789abcdef", "?", "v=1">>),
     Def(<<" ", "01234567-89AB-CDEF-0123-456789ABCDEF", " ">>),
     Def(<<"https://", "notion.so", "/", "ffffffffffffffffffffffffffffffff">>),
     Def(<<"https://", "example.com", "/", "0123456789abcdef0123456789abcdef">>),
     Def(<<"https://", "www.", "notion.so">>),
     Def(<<"hello">>),
     Undefined}

-----------------------------------------------------------------------------
(* The service worker: one message at a time, the next one arriving once    *)
(* the requests of the previous one have settled.                            *)

InitWorker ==
    /\ storage \in {Undefined} \cup {Def(k) : k \in ApiKeys}
    /\ remote \in Workspaces
    /\ request = Undefined
    /\ at = "idle"
    /\ pageCall = "none"
    /\ blocksCall = "none"
    /\ frames = <<>>
    /\ fetched = noFetch
    /\ responses = <<>>
    /\ failures = 0
    /\ handled = 0
    /\ ScanOff
    /\ value = <<>>
    /\ escaped = <<>>
    /\ page = noPage
    /\ blocks = <<>>
    /\ lines = <<>>
    /\ toon = <<>>
    /\ pc = "ready"

\* A slip that answers every message a second time.
sendResponse_Twice(response) == responses' = responses \o <<response, response>>

\* sendResponse(response)
sendResponse(response) == responses' = Append(responses, response)

\* The listener can be called with a message.
Listening ==
    /\ at = "idle" /\ pageCall # "pending" /\ blocksCall # "pending"
    /\ handled < MaxMessages

\* The listener is called: the async function of the call starts afresh.
Called ==
    /\ handled' = handled + 1
    /\ failures' = 0
    /\ pageCall' = "none"
    /\ blocksCall' = "none"
    /\ frames' = <<>>
    /\ fetched' = noFetch
    /\ page' = noPage
    /\ blocks' = <<>>
    /\ lines' = <<>>
    /\ toon' = <<>>
    /\ pc' = "ready"
    /\ UNCHANGED <<svars, value, escaped, storage, remote>>

\* getApiKey(): result[STORAGE_KEY_API] || null
getApiKey == IF IsDef(storage) /\ storage[1] # "" THEN storage ELSE Undefined

\* case 'extract', up to the await of getApiKey() in extractPageToToon.
ReceiveExtract ==
    /\ Listening
    /\ Called
    /\ \E url \in UrlInputs : request' = Def([action |-> "extract", url |-> url])
    /\ at' = "extract:getApiKey"
    /\ responses' = <<>>

\* extractPageToToon from the key to Promise.all: it throws without a key or
\* a page id, and otherwise both calls make their first request.
ExtractStart ==
    /\ at = "extract:getApiKey"
    /\ LET apiKey == getApiKey
           pageId == extractPageId(request[1].url)
       IN  IF ~IsDef(apiKey)
           THEN /\ sendResponse(ErrorResponse([message |->
                    <<"API key not configured. Please set your Notion API key in the extension options.">>]))
                /\ at' = "idle"
                /\ UNCHANGED <<pageCall, blocksCall, frames, fetched>>
           ELSE IF ~IsDef(pageId)
           THEN /\ sendResponse(ErrorResponse([message |->
                    <<"Could not extract page ID from URL. Make sure you are on a valid Notion page.">>]))
                /\ at' = "idle"
                /\ fetched' = [fetched EXCEPT !.apiKey = apiKey]
                /\ UNCHANGED <<pageCall, blocksCall, frames>>
           ELSE /\ at' = "extract:all"
                /\ fetched' = [fetched EXCEPT !.apiKey = apiKey, !.pageId = pageId]
                /\ pageCall' = "pending"
                /\ blocksCall' = "pending"
                /\ frames' = <<NewFrame(pageId[1])>>
                /\ UNCHANGED responses
    /\ UNCHANGED <<svars, cvars, storage, remote, request, failures, handled>>

\* A request fails: the error is thrown to the caller, and Promise.all is
\* rejected with the first error thrown.
Thrown(failure) ==
    [fetched EXCEPT !.error = IF IsDef(@) THEN @ ELSE Def(RequestError(failure))]

\* The request of getPage(pageId) settles.
PageResponse ==
    /\ pageCall = "pending"
    /\ \E r \in Outcomes(fetched.apiKey[1], <<fetched.pageId[1]>> = remote.page.id) :
          IF r.ok
          THEN /\ pageCall' = "ok"
               /\ fetched' = [fetched EXCEPT !.page = Def(remote.page)]
               /\ UNCHANGED failures
          ELSE /\ pageCall' = "failed"
               /\ fetched' = Thrown(r.failure)
               /\ failures' = failures + 1
    /\ UNCHANGED <<svars, cvars, storage, remote, request, at, blocksCall, frames,
                   responses, handled>>

\* The calls of getAllBlocks after the innermost one has run to its next
\* await: the outermost call returning resolves the promise of the call.
Awaiting(stack) ==
    IF Len(stack) = 1 /\ stack[1].st = "return"
    THEN /\ frames' = <<>>
         /\ blocksCall' = "ok"
         /\ fetched' = [fetched EXCEPT !.blocks = Def(stack[1].allBlocks)]
    ELSE /\ frames' = stack
         /\ UNCHANGED <<blocksCall, fetched>>

\* The request of the innermost call of getAllBlocks settles: its results
\* are looped over, or the error goes up through every call.
BlocksResponse ==
    /\ frames # <<>>
    /\ LET fr == frames[Len(frames)]
           outer == SubSeq(frames, 1, Len(frames) - 1)
       IN  /\ fr.st = "request"
           /\ \E r \in Outcomes(fetched.apiKey[1], fr.blockId \in DOMAIN remote.children) :
                 IF r.ok
                 THEN LET response == ChildrenResponse(fr.blockId, fr.cursor)
                      IN  /\ Awaiting(Entered(outer,
                                 ForResults([fr EXCEPT !.results = response.results,
                                                       !.has_more = response.has_more,
                                                       !.next_cursor = response.next_cursor])))
                          /\ UNCHANGED failures
                 ELSE /\ frames' = <<>>
                      /\ blocksCall' = "failed"
                      /\ fetched' = Thrown(r.failure)
                      /\ failures' = failures + 1
    /\ UNCHANGED <<svars, cvars, storage, remote, request, at, pageCall, responses, handled>>

\* An inner call of getAllBlocks has returned: the caller attaches the
\* children to the block and goes on with its loop.
ChildrenFetched ==
    /\ Len(frames) >= 2
    /\ LET inner == frames[Len(frames)]
           fr == frames[Len(frames) - 1]
           outer == SubSeq(frames, 1, Len(frames) - 2)
       IN  /\ inner.st = "return"
           /\ Awaiting(Entered(outer, ForResults(AttachChildren(fr, inner.allBlocks))))
    /\ UNCHANGED <<svars, cvars, storage, remote, request, at, pageCall, responses,
                   failures, handled>>

\* Promise.all is fulfilled: convertToToon(page, blocks) is called, and the
\* result is sent; an error thrown by the call is caught by the listener.
ExtractFulfilled ==
    /\ at = "extract:all"
    /\ pageCall = "ok" /\ blocksCall = "ok"
    /\ page' = fetched.page[1]
    /\ blocks' = fetched.blocks[1]
    /\ IF Raised(ToonLines(page', blocks'))
       THEN /\ pc' = "threw"
            /\ UNCHANGED <<lines, toon>>
            /\ sendResponse(ErrorResponse([message |-> <<TypeError>>]))
       ELSE /\ pc' = "done"
            /\ lines' = ToonLines(page', blocks')
            /\ toon' = convertToToon(page', blocks')
            /\ sendResponse([success |-> TRUE,
                             data |-> [pageId |-> fetched.pageId[1],
                                       title |-> workerExtractTitle(page'),
                                       toon |-> toon']])
    /\ at' = "idle"
    /\ UNCHANGED <<svars, value, escaped, storage, remote, request, pageCall, blocksCall,
                   frames, fetched, failures, handled>>

\* Promise.all is rejected: the listener catches the error and sends it.
ExtractRejected ==
    /\ at = "extract:all"
    /\ pageCall = "failed" \/ blocksCall = "failed"
    /\ sendResponse(ErrorResponse(fetched.error[1]))
    /\ at' = "idle"
    /\ UNCHANGED <<svars, cvars, storage, remote, request, pageCall, blocksCall, frames,
                   fetched, failures, handled>>

\* case 'getApiKey', up to the await of getApiKey().
ReceiveGetApiKey ==
    /\ Listening
    /\ Called
    /\ request' = Def([action |-> "getApiKey"])
    /\ at' = "getApiKey"
    /\ responses' = <<>>

GetApiKeyLoaded ==
    /\ at = "getApiKey"
    /\ sendResponse([success |-> TRUE, apiKey |-> getApiKey])
    /\ at' = "idle"
    /\ UNCHANGED <<svars, cvars, storage, remote, request, pageCall, blocksCall, frames,
                   fetched, failures, handled>>

\* case 'saveApiKey', up to the await of saveApiKey(request.apiKey).
ReceiveSaveApiKey ==
    /\ Listening
    /\ Called
    /\ \E apiKey \in ApiKeys :
          request' = Def([action |-> "saveApiKey", apiKey |-> apiKey])
    /\ at' = "saveApiKey"
    /\ responses' = <<>>

ApiKeySaved ==
    /\ at = "saveApiKey"
    /\ storage' = Def(request[1].apiKey)
    /\ sendResponse([success |-> TRUE])
    /\ at' = "idle"
    /\ UNCHANGED <<svars, cvars, remote, request, pageCall, blocksCall, frames, fetched,
                   failures, handled>>

\* case 'testConnection', up to the request of client.testConnection().
ReceiveTestConnection ==
    /\ Listening
    /\ Called
    /\ \E apiKey \in ApiKeys :
          request' = Def([action |-> "testConnection", apiKey |-> apiKey])
    /\ at' = "testConnection"
    /\ responses' = <<>>

\* The request of /users/me settles: testApiConnection returns the user's
\* name or id, or the error is caught and sent.
TestConnectionResponse ==
    /\ at = "testConnection"
    /\ \E r \in Outcomes(request[1].apiKey, TRUE) :
          IF r.ok
          THEN /\ sendResponse([success |-> TRUE,
                                data |-> [success |-> TRUE,
                                          user |-> OrElse(Prop(remote.user, "name"),
                                                          remote.user.id)]])
               /\ UNCHANGED <<fetched, failures>>
          ELSE /\ sendResponse(ErrorResponse(RequestError(r.failure)))
               /\ fetched' = Thrown(r.failure)
               /\ failures' = failures + 1
    /\ at' = "idle"
    /\ UNCHANGED <<svars, cvars, storage, remote, request, pageCall, blocksCall, frames, handled>>

\* case 'checkPageId': answered before the listener returns.
ReceiveCheckPageId ==
    /\ Listening
    /\ Called
    /\ \E url \in UrlInputs :
          /\ request' = Def([action |-> "checkPageId", url |-> url])
          /\ responses' = <<[success |-> TRUE, pageId |-> extractPageId(url)]>>
    /\ at' = "idle"

\* default: answered before the listener returns.
ReceiveUnknown ==
    /\ Listening
    /\ Called
    /\ \E action \in {"ping", ""} : request' = Def([action |-> action])
    /\ responses' = <<[success |-> FALSE, error |-> <<"Unknown action">>]>>
    /\ at' = "idle"

NextWorker ==
    \/ ReceiveExtract
    \/ ExtractStart
    \/ PageResponse
    \/ BlocksResponse
    \/ ChildrenFetched
    \/ ExtractFulfilled
    \/ ExtractRejected
    \/ ReceiveGetApiKey
    \/ GetApiKeyLoaded
    \/ ReceiveSaveApiKey
    \/ ApiKeySaved
    \/ ReceiveTestConnection
    \/ TestConnectionResponse
    \/ ReceiveCheckPageId
    \/ ReceiveUnknown

SpecWorker == InitWorker /\ [][NextWorker]_vars

\* The steps by which an await of the listener's async function settles:
\* a request is answered or fails, Promise.all is rejected, storage answers.
Settle ==
    \/ PageResponse
    \/ BlocksResponse
    \/ ChildrenFetched
    \/ ExtractRejected
    \/ GetApiKeyLoaded
    \/ ApiKeySaved
    \/ TestConnectionResponse

\* The service worker with every await settling: chrome.storage answers,
\* every fetch is fulfilled or rejected, and the function goes on after the
\* await.  Messages arrive or not.  The last two conjuncts are
\* WF_vars(ExtractStart) and WF_vars(ExtractFulfilled), written with the
\* guards of the two actions: each action makes its own guard false, so that
\* taking it infinitely often when it stays enabled is the guard being false
\* infinitely often.
FairWorker ==
    /\ SpecWorker
    /\ WF_vars(Settle)
    /\ []<>~(at = "extract:getApiKey")
    /\ []<>~(at = "extract:all" /\ pageCall = "ok" /\ blocksCall = "ok")

-----------------------------------------------------------------------------
(* C10 *)

RECURSIVE Resolved(_)
\* The blocks the workspace holds under an id, each block reported with
\* children carrying all of them, resolved in the same way.
Resolved(id) ==
    [i \in 1..Len(remote.children[id]) |->
        LET block == remote.children[id][i]
        IN  IF "has_children" \in DOMAIN block /\ block.has_children
            THEN [children |-> Resolved(block.id)] @@ block
            ELSE block]

\* The message being handled is an extract request.
Extracting == IsDef(request) /\ request[1].action = "extract"

\* C10: while an extract request is handled, convertToToon has been called
\* only if the key was stored and the url gave a page id, the page fetch and
\* the block fetch have both completed, no request of the extraction has
\* failed, and the arguments of the call are the fetched page and the block
\* list in which every block reported with children carries its complete,
\* recursively fetched child list; so after a failed request, or without a
\* key or a page id, the call has not been made.
ConvertAfterFetch ==
    Extracting /\ pc # "ready" =>
        /\ IsDef(getApiKey)
        /\ IsDef(extractPageId(request[1].url))
        /\ pageCall = "ok" /\ blocksCall = "ok" /\ frames = <<>>
        /\ failures = 0
        /\ page = remote.page
        /\ blocks = Resolved(extractPageId(request[1].url)[1])

\* An extraction that took two requests for the top level and one for each of
\* two nested levels has called the converter.
ConvertAfterFetchWitness ==
    /\ Extracting
    /\ pc = "done"
    /\ Len(blocks) = 3
    /\ Len(blocks[2].children) = 2
    /\ blocks[2].children[2].children = <<Listed("d1", Def(FALSE), Para(<<"f">>))>>
    /\ "children" \notin DOMAIN blocks[1]
    /\ Len(responses) = 1 /\ responses[1].success

-----------------------------------------------------------------------------
(* C11 *)

TextKinds == {"paragraph", "heading_1", "heading_2", "heading_3", "toggle", "quote"}

\* A block of a kind with its payload under the kind's name, and with
\* children when they are defined.
KindBlock(kind, payload, children) ==
    (IF IsDef(children) THEN [type |-> kind, children |-> children[1]] ELSE [type |-> kind])
        @@ (kind :> payload)

\* Run lists: a text, a text with a newline, no run, and a run of no text.
TextRuns == {RT(<<"a">>), RT(<<"a", NL, "b">>), <<>>, RT(<<>>)}

\* Children: none, an empty list, a paragraph, a heading with a child of its
\* own, and two list items.
TextChildren ==
    {Undefined,
     Def(<<>>),
     Def(<<Para(<<"c">>)>>),
     Def(<<[type |-> "heading_1", heading_1 |-> [rich_text |-> RT(<<"d">>)],
            children |-> <<Para(<<"e">>)>>]>>),
     Def(<<Bullet(<<"f">>), Bullet(<<"g">>)>>)}

TextSamples ==
    {KindBlock(kind, [rich_text |-> runs], children) :
        kind \in TextKinds, runs \in TextRuns, children \in TextChildren}

\* A block of a text-bearing kind on its own, after a paragraph, and as the
\* child of a block of each text-bearing kind.
TextForests ==
    {<<t>> : t \in TextSamples}
        \cup {<<Para(<<"h">>), t>> : t \in TextSamples}
        \cup {<<KindBlock(kind, [rich_text |-> RT(<<"i">>)], Def(<<t>>))>> :
                kind \in TextKinds, t \in TextSamples}

InitText ==
    /\ WorkerOff
    /\ ScanOff
    /\ page = barePage
    /\ blocks \in TextForests
    /\ value = <<>>
    /\ escaped = <<>>
    /\ lines = <<>>
    /\ toon = <<>>
    /\ pc = "ready"

NextText == Convert

SpecText == InitText /\ [][NextText]_vars

\* The marker of a text-bearing kind, as the claim gives it.
TextMarker(kind) ==
    CASE kind = "paragraph" -> "p: "
      [] kind = "heading_1" -> "h1: "
      [] kind = "heading_2" -> "h2: "
      [] kind = "heading_3" -> "h3: "
      [] kind = "toggle" -> "toggle: "
      [] kind = "quote" -> "quote: "

\* The lines the claim gives for a block of a text-bearing kind at depth d:
\* the marker line unless the text is empty, then the children one level down.
TextLines(b, d) ==
    (IF ItemText(b) # <<>>
     THEN <<Indent(d) \o <<TextMarker(b.type)>> \o escapeValue(ItemText(b))>>
     ELSE <<>>)
        \o (IF "children" \in DOMAIN b THEN convertBlocks(Def(b.children), d + 1) ELSE <<>>)

RECURSIVE TextRule(_, _)
\* Every block of a text-bearing kind among bs at depth d, and among the
\* children of those blocks, is converted to the lines the claim gives.
TextRule(bs, d) ==
    \A i \in 1..Len(bs) :
        bs[i].type \in TextKinds =>
            /\ convertBlock(bs[i], d) = TextLines(bs[i], d)
            /\ TextRule(ChildrenOf(bs[i]), d + 1)

\* C11 as stated: a block of a text-bearing kind (paragraph, heading_1,
\* heading_2, heading_3, toggle, quote) gives the one line marker: escaped
\* text, no line when its text is empty, and then the conversion of its
\* children one level deeper when it has children.
TextKindLinesAsStated ==
    pc = "done" =>
        /\ TextRule(blocks, 0)
        /\ Content(lines) = Flatten([i \in 1..Len(blocks) |-> TextLines(blocks[i], 0)])

-----------------------------------------------------------------------------
(* C12 *)

\* Whether the claim gives a property a line: it is not the title, and its
\* extracted value is defined, not null and not the empty text.
HasLine(entry) ==
    LET v == extractPropertyValue(Def(entry.prop))
    IN  /\ entry.prop.type # "title"
        /\ v.t \notin {"null", "undefined"}
        /\ ~(v.t = "string" /\ v.v = <<>>)

\* The lines of the properties section for a list of entries, in its order.
LinesInOrder(entries) ==
    Flatten([i \in 1..Len(entries) |->
        IF HasLine(entries[i])
        THEN << <<"  ">> \o entries[i].name \o <<": ">>
                    \o formatPropertyValue(extractPropertyValue(Def(entries[i].prop))) >>
        ELSE <<>>])

\* The properties section of the line list, none when there is no header.
PropertiesSection ==
    IF <<"properties:">> \in Range(lines) THEN SectionBody(lines, <<"properties:">>)
    ELSE <<>>

\* C12 as stated: the properties section holds exactly one line name: value
\* for each property that is not the title and whose extracted value is
\* defined, not null and not empty (false and 0 are values), no line for any
\* other property, and the lines are in the insertion order of the input map.
PropertyLinesAsStated ==
    pc = "done" => PropertiesSection = LinesInOrder(PageEntries)

-----------------------------------------------------------------------------
(* C13 *)

\* formatPropertyValue: the longest sequence tried.
MaxElems == 2

\* Elements of an extracted sequence: texts, a number, the undefined and null
\* of a missing name, a boolean, and a sequence.
ElemSamples ==
    <<JStr(<<"a">>), JStr(<<"b", NL, "c">>), JStr(<<>>), JStr(<<",", "d">>), JNum(12),
      JUndef, JNull, JBool(TRUE), JArr(<<JStr(<<"x">>), JStr(<<"y">>)>>)>>

\* Extracted values that are no sequence and no text: booleans, whole
\* numbers, and the null and undefined that convertProperties keeps from the
\* call.
ScalarSamples ==
    <<JBool(TRUE), JBool(FALSE), JNum(0), JNum(7), JNum(120), JNum(0 - 3), JNull, JUndef>>

InitFormat ==
    /\ WorkerOff
    /\ ScanOff
    /\ \/ \E n \in 0..MaxElems : \E f \in [1..n -> 1..Len(ElemSamples)] :
              value = JArr([i \in 1..n |-> ElemSamples[f[i]]])
       \/ \E k \in 1..Len(ScalarSamples) : value = ScalarSamples[k]
       \/ \E t \in Texts : value = JStr(t)
    /\ escaped = <<>>
    /\ page = noPage
    /\ blocks = <<>>
    /\ lines = <<>>
    /\ toon = <<>>
    /\ pc = "ready"

\* One call formatPropertyValue(value).
Format ==
    /\ pc = "ready"
    /\ escaped' = formatPropertyValue(value)
    /\ pc' = "done"
    /\ UNCHANGED <<value, page, blocks, lines, toon, wvars, svars>>

NextFormat == Format

SpecFormat == InitFormat /\ [][NextFormat]_vars

\* The text of a value that is no sequence, boolean or number, and of an
\* element of a sequence.
TextOf(v) == StringOf(v)

\* The elements of a rendered sequence: what stands between the brackets,
\* cut at each ", ".
Rendered(s) == Split(SubSeq(s, 2, Len(s) - 1), ", ")

\* C13: formatPropertyValue renders a sequence as [v1, v2, ...] with each
\* element escaped and an empty sequence as [], a boolean as true or false, a
\* number as its decimal text, and any other value as its escaped text.
FormatRule ==
    pc = "done" =>
        CASE value.t = "array" /\ value.v = <<>> -> escaped = <<"[]">>
          [] value.t = "array" /\ value.v # <<>> ->
                /\ Head(escaped) = "[" /\ escaped[Len(escaped)] = "]"
                /\ Rendered(escaped) = [i \in 1..Len(value.v) |-> escapeValue(TextOf(value.v[i]))]
          [] value.t = "boolean" -> escaped = IF value.v THEN <<"true">> ELSE <<"false">>
          [] value.t = "number" ->
                escaped = IF value.v < 0 THEN <<"-">> \o Decimal(0 - value.v)
                          ELSE Decimal(value.v)
          [] OTHER -> escaped = escapeValue(TextOf(value))

\* A sequence of a text with a newline and a number has been rendered.
FormatRuleWitness ==
    /\ pc = "done"
    /\ value.t = "array" /\ Len(value.v) = 2
    /\ value.v[1].t = "string" /\ value.v[1].v = <<"b", NL, "c">>
    /\ value.v[2].t = "number" /\ value.v[2].v = 12
    /\ escaped = <<"[", "b", ".", ".", ".", ", ", "1", "2", "]">>

-----------------------------------------------------------------------------
(* C14 *)

\* C14: convertToToon leaves its input unchanged: across a call, the page
\* record with its property map and the block list with every block and
\* child list in it are what they were before the call.
InputUnchanged ==
    [][pc = "ready" /\ pc' # "ready" => page' = page /\ blocks' = blocks]_vars

\* A table with a header row has been converted: the header row is left out
\* of the data rows, and the table still has its two rows.
InputUnchangedWitness ==
    /\ pc = "done"
    /\ Len(blocks) = 1
    /\ blocks[1].type = "table"
    /\ "children" \in DOMAIN blocks[1] /\ Len(blocks[1].children) = 2
    /\ Content(lines) = << <<"table[", "1", "]:">>, <<"  ", "a">> >>

-----------------------------------------------------------------------------
(* C15 *)

\* convertBlocks: the deepest nesting of blocks tried.
MaxDepth == 2

\* Blocks without children: a paragraph, a block of an unknown kind, a code
\* block of two lines, a table of one row, and a paragraph without text.
Leaves ==
    {Para(<<"a">>), [type |-> "exotic_widget"],
     [type |-> "code", code |-> [rich_text |-> RT(<<"a", NL, "b">>)]],
     [type |-> "table", children |-> <<Row(<<RT(<<"c">>)>>)>>],
     [type |-> "paragraph"]}

\* The kinds that hold the children of the trees.
Holders ==
    {"heading_1", "toggle", "quote", "callout", "bulleted_list_item", "to_do",
     "synced_block", "column_list"}

\* A block of a holder kind over a child list: a column_list holds the list
\* in its first column, beside a column with a paragraph and an empty column.
Hold(kind, children) ==
    IF kind = "column_list"
    THEN [type |-> kind,
          children |-> <<[type |-> "column", children |-> children],
                         [type |-> "column", children |-> <<Para(<<"z">>)>>],
                         [type |-> "column"]>>]
    ELSE IF kind = "synced_block" THEN [type |-> kind, children |-> children]
    ELSE KindBlock(kind, [rich_text |-> RT(<<"t">>)], Def(children))

RECURSIVE Trees(_)
\* The blocks nested n deep at most: a holder over one tree, over a run of
\* two list items, and over a list item with a child followed by a list item.
Trees(n) ==
    IF n = 0 THEN Leaves
    ELSE Trees(n - 1)
            \cup {Hold(kind, <<t>>) : kind \in Holders, t \in Trees(n - 1)}
            \cup {Hold(kind, <<Bullet(<<"x">>), Bullet(<<"y">>)>>) : kind \in Holders}
            \cup {Hold(kind, <<Hold("bulleted_list_item", <<t>>), Bullet(<<>>)>>) :
                    kind \in Holders, t \in Leaves}

DepthForests == {<<t>> : t \in Trees(MaxDepth)}

InitDepth ==
    /\ WorkerOff
    /\ ScanOff
    /\ page = barePage
    /\ blocks \in DepthForests
    /\ value = <<>>
    /\ escaped = <<>>
    /\ lines = <<>>
    /\ toon = <<>>
    /\ pc = "ready"

NextDepth == Convert

SpecDepth == InitDepth /\ [][NextDepth]_vars

RECURSIVE Level(_)
\* The number of two-space indents a line starts with.
Level(l) == IF l # <<>> /\ Head(l) = "  " THEN 1 + Level(Tail(l)) ELSE 0

Levels(ls) == [i \in 1..Len(ls) |-> Level(ls[i])]

\* n times the level d.
Times(n, d) == [i \in 1..n |-> d]

\* The number of newlines of a text.
Newlines(text) == Cardinality({i \in 1..Len(text) : text[i] = NL})

RECURSIVE TreeLevels(_, _)
\* The levels of the lines of the siblings bs at depth d, as the claim gives
\* them: a block's own line is at d; the children of a heading, toggle,
\* quote, callout or list item are at d + 1; a synced_block has no line and
\* its children are at d; a column_list with children has one line at d and
\* the children of its columns are at d + 1.  The rows of a table, the lines
\* of a code block and the items of a tabular list are one level below their
\* header.
TreeLevels(bs, d) ==
    IF bs = <<>> THEN <<>>
    ELSE
        LET b == bs[1]
            n == IF b.type \in ListKinds THEN RunLength(bs) ELSE 1
            run == SubSeq(bs, 1, n)
            own(x) == IF ItemText(x) # <<>> THEN <<d>> ELSE <<>>
            below(x) == TreeLevels(ChildrenOf(x), d + 1)
            here ==
                CASE b.type \in ListKinds ->
                        IF n >= 2 /\ \A j \in 1..n : ~ItemHasChildren(run[j])
                        THEN <<d>> \o Times(n, d + 1)
                        ELSE Flatten([j \in 1..n |-> own(run[j]) \o below(run[j])])
                  [] b.type \in {"heading_1", "heading_2", "heading_3", "toggle", "quote",
                                 "callout"} -> own(b) \o below(b)
                  [] b.type = "paragraph" -> own(b)
                  [] b.type = "synced_block" -> TreeLevels(ChildrenOf(b), d)
                  [] b.type = "column_list" ->
                        IF "children" \in DOMAIN b
                        THEN <<d>> \o Flatten([j \in 1..Len(b.children) |->
                                        TreeLevels(ChildrenOf(b.children[j]), d + 1)])
                        ELSE <<>>
                  [] b.type = "code" ->
                        IF ItemText(b) # <<>>
                        THEN <<d>> \o Times(Newlines(ItemText(b)) + 1, d + 1) ELSE <<>>
                  [] b.type = "table" ->
                        LET rows == TableRows(b)
                        IN  <<d>> \o Times(IF HeaderFlag(b) /\ rows # <<>>
                                           THEN Len(rows) - 1 ELSE Len(rows), d + 1)
                  [] OTHER -> <<d>>
        IN  here \o TreeLevels(SubSeq(bs, n + 1, Len(bs)), d)

\* C15: the indentation of every line is the depth of its block in the tree:
\* d indents for a block at depth d (after the one indent of the content
\* section), d + 1 for the children of a heading, toggle, quote, callout or
\* list item, d for the children of a synced_block, which has no line, and
\* d + 1 for the children of the columns of a column_list under its one
\* columns: line; the same for list items converted one by one.
IndentTracksDepth ==
    pc = "done" => Levels(Content(lines)) = TreeLevels(blocks, 0)

\* A list item with a child, converted on its own below a column, beside a
\* second column: columns: at 0, the item at 1, its child at 2, and the
\* paragraph of the second column at 1.
IndentTracksDepthWitness ==
    /\ pc = "done"
    /\ blocks = <<Hold("column_list",
                       <<Hold("bulleted_list_item", <<Para(<<"a">>)>>), Bullet(<<>>)>>)>>
    /\ Levels(Content(lines)) = <<0, 1, 2, 1>>

-----------------------------------------------------------------------------
(* The sibling scan, step by step: src/lib/toon-converter.js, convertBlocks *)

\* convertBlocks: the longest sibling list scanned.
MaxScan == 3

\* Siblings: list items of two kinds, a paragraph and a table.
ScanSamples ==
    {Bullet(<<"x">>), Numbered(<<"y">>), Para(<<"p">>),
     [type |-> "table", children |-> <<Row(<<RT(<<"c">>)>>)>>]}

ScanLists == UNION {[1..n -> ScanSamples] : n \in 0..MaxScan}

InitScan ==
    /\ WorkerOff
    /\ ScanOff
    /\ page = barePage
    /\ blocks \in ScanLists
    /\ value = <<>>
    /\ escaped = <<>>
    /\ lines = <<>>
    /\ toon = <<>>
    /\ pc = "ready"

\* One call made by the scan: the function, the index it was made at, and
\* the blocks handed over.
Call(fn, bs) == [fn |-> fn, at |-> scanAt, blocks |-> bs]

\* The entry of convertBlocks(blocks, 0): an empty list returns at once,
\* otherwise the scan starts at the first block (index 1 here, 0 in the
\* source).
ScanEnter ==
    /\ pc = "ready"
    /\ IF Len(blocks) = 0
       THEN pc' = "done" /\ UNCHANGED scanAt
       ELSE pc' = "scan" /\ scanAt' = 1
    /\ UNCHANGED <<value, escaped, page, blocks, lines, toon, calls, wvars>>

\* An iteration at a list item.
ScanList ==
    /\ pc = "scan"
    /\ scanAt <= Len(blocks)
    /\ isListItem(blocks[scanAt])
    /\ LET listItems == collectListItems(blocks, scanAt)
       IN  /\ lines' = lines \o formatListItems(listItems, Indent(0))
           /\ scanAt' = scanAt + Len(listItems)
           /\ calls' = Append(calls, Call("formatListItems", listItems))
    /\ UNCHANGED <<value, escaped, page, blocks, toon, pc, wvars>>

\* An iteration at a table.
ScanTable ==
    /\ pc = "scan"
    /\ scanAt <= Len(blocks)
    /\ ~isListItem(blocks[scanAt])
    /\ blocks[scanAt].type = "table"
    /\ lines' = lines \o formatTable(blocks[scanAt], Indent(0))
    /\ scanAt' = scanAt + 1
    /\ calls' = Append(calls, Call("formatTable", <<blocks[scanAt]>>))
    /\ UNCHANGED <<value, escaped, page, blocks, toon, pc, wvars>>

\* An iteration at a regular block.
ScanBlock ==
    /\ pc = "scan"
    /\ scanAt <= Len(blocks)
    /\ ~isListItem(blocks[scanAt])
    /\ blocks[scanAt].type # "table"
    /\ lines' = lines \o convertBlock(blocks[scanAt], 0)
    /\ scanAt' = scanAt + 1
    /\ calls' = Append(calls, Call("convertBlock", <<blocks[scanAt]>>))
    /\ UNCHANGED <<value, escaped, page, blocks, toon, pc, wvars>>

\* The loop condition fails: return lines.
ScanReturn ==
    /\ pc = "scan"
    /\ ~(scanAt <= Len(blocks))
    /\ pc' = "done"
    /\ UNCHANGED <<value, escaped, page, blocks, lines, toon, svars, wvars>>

NextScan ==
    \/ ScanEnter
    \/ ScanList
    \/ ScanTable
    \/ ScanBlock
    \/ ScanReturn

\* The function runs: a step that can be taken is taken.
SpecScan == InitScan /\ [][NextScan]_vars /\ WF_vars(NextScan)

-----------------------------------------------------------------------------
(* C16 *)

\* The blocks of the calls made so far, in the order of the calls.
Handed == Flatten([k \in 1..Len(calls) |-> calls[k].blocks])

\* One iteration, as the claim gives it: the index grows, by the length of
\* the maximal run of the kind at the index when a list item is there, and by
\* one otherwise; the blocks passed over are those handed to the call; and
\* the lines of these blocks come after the lines there were.
ScanStepRule ==
    pc = "scan" /\ pc' = "scan" =>
        LET rest == SubSeq(blocks, scanAt, Len(blocks))
            n == IF rest[1].type \in ListKinds THEN RunLength(rest) ELSE 1
        IN  /\ scanAt' > scanAt
            /\ scanAt' = scanAt + n
            /\ n >= 1
            /\ Len(calls') = Len(calls) + 1
            /\ calls'[Len(calls')].at = scanAt
            /\ calls'[Len(calls')].blocks = SubSeq(blocks, scanAt, scanAt + n - 1)
            /\ lines' = lines \o convertBlocks(Def(SubSeq(blocks, scanAt, scanAt + n - 1)), 0)

\* While the scan runs, the blocks before the index are the blocks handled,
\* once each and in order.
ScanSoFar ==
    pc = "scan" =>
        /\ scanAt \in 1..(Len(blocks) + 1)
        /\ Handed = SubSeq(blocks, 1, scanAt - 1)

\* At the return every block has been handled once, in order, and the lines
\* are those of the whole list.
ScanAtReturn ==
    pc = "done" =>
        /\ Handed = blocks
        /\ lines = convertBlocks(Def(blocks), 0)

\* C16: the sibling scan handles every block once, in input order, and
\* ends: the index grows at every iteration, by the length of the maximal
\* run of one kind at a list item and by one at a table or regular block,
\* the run collected is that maximal run, grouping starts again at the block
\* after it, and the lines of an earlier sibling precede those of a later one.
ScanRule ==
    /\ [][ScanStepRule]_vars
    /\ [](ScanSoFar /\ ScanAtReturn)
    /\ <>(pc = "done")

\* A run of two list items and a list item of another kind, which starts a
\* run of its own: two calls, at 1 and at 3.
ScanRuleWitness ==
    /\ pc = "done"
    /\ Len(blocks) = 3
    /\ Len(calls) = 2
    /\ calls[1].fn = "formatListItems" /\ calls[1].at = 1 /\ Len(calls[1].blocks) = 2
    /\ calls[2].fn = "formatListItems" /\ calls[2].at = 3 /\ Len(calls[2].blocks) = 1

-----------------------------------------------------------------------------
(* C17 *)

\* Language tags: none, a tag, and the empty tag.
CodeLanguages == {Undefined, Def(<<"j", "s">>), Def(<<>>)}

\* A code block with a text in one run and a language tag.
Code(text, language) ==
    [type |-> "code",
     code |-> IF IsDef(language)
              THEN [rich_text |-> RT(text), language |-> language[1]]
              ELSE [rich_text |-> RT(text)]]

\* Code blocks: every text with every tag, a text in two runs, no run list,
\* and no payload.
CodeSamples ==
    {Code(text, language) : text \in Texts, language \in CodeLanguages}
        \cup {[type |-> "code", code |-> [rich_text |-> RT(<<"a", NL>>) \o RT(<<NL, "b">>)]],
              [type |-> "code", code |-> [language |-> <<"j", "s">>]],
              [type |-> "code"]}

\* A code block on its own, and as the child of a toggle.
CodeForests ==
    {<<c>> : c \in CodeSamples}
        \cup {<<KindBlock("toggle", [rich_text |-> RT(<<"t">>)], Def(<<c>>))>> :
                c \in CodeSamples}

InitCode ==
    /\ WorkerOff
    /\ ScanOff
    /\ page = barePage
    /\ blocks \in CodeForests
    /\ value = <<>>
    /\ escaped = <<>>
    /\ lines = <<>>
    /\ toon = <<>>
    /\ pc = "ready"

NextCode == Convert

SpecCode == InitCode /\ [][NextCode]_vars

TheCode == IF blocks[1].type = "code" THEN blocks[1] ELSE blocks[1].children[1]

CodeDepth == IF blocks[1].type = "code" THEN 0 ELSE 1

\* The lines of the code block: the content lines, after the line of the
\* toggle when the block is its child.
CodeOut == IF CodeDepth = 0 THEN Content(lines) ELSE Tail(Content(lines))

\* The language tag of the header.
CodeLanguage(b) ==
    IF "code" \in DOMAIN b /\ "language" \in DOMAIN b.code /\ b.code.language # <<>>
    THEN b.code.language ELSE <<"plain">>

\* The lines ls are those of a code block of the given text and language tag
\* at depth d: the header, then one line for each of the k + 1 pieces between
\* the k newlines of the text, each piece as it is, one indent deeper than
\* the header, so that the pieces joined by newlines are the text again.
CodeLines(ls, text, language, d) ==
    /\ Len(ls) = Newlines(text) + 2
    /\ ls[1] = Indent(d) \o <<"code[">> \o language \o <<"]:">>
    /\ \A j \in 2..Len(ls) :
        /\ Len(ls[j]) >= d + 1
        /\ SubSeq(ls[j], 1, d + 1) = Indent(d + 1)
        /\ ~Includes(SubSeq(ls[j], d + 2, Len(ls[j])), NL)
    /\ Join([j \in 1..(Len(ls) - 1) |-> SubSeq(ls[j + 1], d + 2, Len(ls[j + 1]))], NL) = text

\* C17 as stated: every code block is converted to the header line
\* code[language]:, with plain for a missing language, and the pieces of its
\* text between the newlines one per line in order, one indent deeper and not
\* escaped: k newlines give k + 1 body lines and nothing of the text is lost.
CodeBlockAsStated ==
    pc = "done" => CodeLines(CodeOut, ItemText(TheCode), CodeLanguage(TheCode), CodeDepth)

\* C17, amended: the same for a code block whose text is not empty; a code
\* block whose text is empty has no line at all, not even the header.
CodeBlock ==
    pc = "done" =>
        IF ItemText(TheCode) = <<>>
        THEN CodeOut = <<>>
        ELSE CodeLines(CodeOut, ItemText(TheCode), CodeLanguage(TheCode), CodeDepth)

\* A code block below a toggle, with a comma and two newlines in its text:
\* the header and three body lines, the last one empty.
CodeBlockWitness ==
    /\ pc = "done"
    /\ CodeDepth = 1
    /\ ItemText(TheCode) = <<",", NL, NL>>
    /\ CodeOut = << <<"  ", "code[", "plain", "]:">>, <<"  ", "  ", ",">>,
                    <<"  ", "  ">>, <<"  ", "  ">> >>

-----------------------------------------------------------------------------
(* C18 *)

\* A text of two lines.
TwoLines == <<"a", NL, "b">>

\* Pages with a text of two lines as the title and as the value of a text
\* property, of a select property and of an element of a multi-select
\* property, and the page without properties.
SlotPages ==
    {barePage,
     PageOf(<<[name |-> <<"Name">>, prop |-> [type |-> "title", title |-> RT(TwoLines)]]>>),
     PageOf(<<[name |-> <<"Memo">>, prop |-> [type |-> "rich_text", rich_text |-> RT(TwoLines)]]>>),
     PageOf(<<[name |-> <<"Phase">>, prop |-> [type |-> "select", select |-> [name |-> TwoLines]]]>>),
     PageOf(<<[name |-> <<"Kind">>,
               prop |-> [type |-> "multi_select",
                         multi_select |-> <<[name |-> <<"x">>], [name |-> TwoLines]>>]]>>)}

\* Blocks with a text of two lines in a slot of one line: the text of a
\* block of every text kind, a caption, a title, a file name, an expression,
\* the cells of a table and its header, and the items of a list in both forms.
SlotBlocks ==
    {<<KindBlock(kind, [rich_text |-> RT(TwoLines)], Undefined)>> :
        kind \in {"paragraph", "heading_1", "heading_2", "heading_3", "toggle", "quote",
                  "callout", "bulleted_list_item", "numbered_list_item", "to_do"}}
    \cup {<<Bullet(TwoLines), Bullet(TwoLines)>>,
          <<Todo(TwoLines, TRUE), Todo(<<"c">>, FALSE)>>,
          <<[type |-> "image", image |-> [caption |-> RT(TwoLines)]]>>,
          <<[type |-> "bookmark", bookmark |-> [caption |-> RT(TwoLines), url |-> <<"u">>]]>>,
          <<[type |-> "child_page", child_page |-> [title |-> TwoLines]]>>,
          <<[type |-> "child_database", child_database |-> [title |-> TwoLines]]>>,
          <<[type |-> "equation", equation |-> [expression |-> TwoLines]]>>,
          <<[type |-> "file", file |-> [name |-> TwoLines, external |-> [url |-> <<"u">>]]]>>,
          <<[type |-> "file", file |-> [name |-> <<"n">>, external |-> [url |-> <<"u">>]]]>>,
          <<[type |-> "table", table |-> [has_column_header |-> TRUE],
             children |-> <<Row(<<RT(TwoLines)>>), Row(<<RT(TwoLines), RT(<<"c">>)>>)>>]>>,
          <<[type |-> "code", code |-> [rich_text |-> RT(TwoLines)]]>>,
          <<>>}

InitSlots ==
    /\ WorkerOff
    /\ ScanOff
    /\ page \in SlotPages
    /\ blocks \in SlotBlocks
    /\ value = <<>>
    /\ escaped = <<>>
    /\ lines = <<>>
    /\ toon = <<>>
    /\ pc = "ready"

NextSlots == Convert

SpecSlots == InitSlots /\ [][NextSlots]_vars

\* C18 as stated: every text of the input that goes into a slot of one line
\* (block text, caption, title, file name, property value, table cell, list
\* item) is escaped, so that no element of the line list holds a newline and
\* the string returned has as many lines as the list has elements.
EscapedEverywhereAsStated ==
    pc = "done" =>
        /\ \A k \in 1..Len(lines) : ~Includes(lines[k], NL)
        /\ Len(Split(toon, NL)) = Len(lines)

-----------------------------------------------------------------------------
(* C19 *)

KnownActions == {"extract", "getApiKey", "saveApiKey", "testConnection", "checkPageId"}

\* The messages of the errors the actions throw.
ErrorMessages ==
    {<<"API key not configured. Please set your Notion API key in the extension options.">>,
     <<"Could not extract page ID from URL. Make sure you are on a valid Notion page.">>,
     <<"API token is invalid.">>, <<"API error: ", "5", "0", "0">>, <<"Failed to fetch">>}

\* The message being handled is an extract request that finds no API key.
KeyMissing == request[1].action = "extract" /\ (~IsDef(storage) \/ storage[1] = "")

\* The message being handled is an extract request whose url has no page id.
PageIdInvalid ==
    request[1].action = "extract" /\ ~KeyMissing /\ ~IsDef(extractPageId(request[1].url))

\* An API request made for the message has failed.
RequestFailed == request[1].action \in {"extract", "testConnection"} /\ failures > 0

\* The action of the message has thrown.
ActionThrew ==
    KeyMissing \/ PageIdInvalid \/ RequestFailed
        \/ (request[1].action = "extract" /\ pc = "threw")

\* The listener has answered the message being handled: one response, the
\* one the claim gives for the way the action ended.
Answered ==
    /\ Len(responses) = 1
    /\ IF request[1].action \notin KnownActions
       THEN responses[1] = [success |-> FALSE, error |-> <<"Unknown action">>]
       ELSE IF ActionThrew
       THEN /\ responses[1].success = FALSE
            /\ DOMAIN responses[1] = {"success", "error"}
            /\ responses[1].error # <<>>
            /\ KeyMissing => responses[1].error =
                <<"API key not configured. Please set your Notion API key in the extension options.">>
            /\ PageIdInvalid => responses[1].error =
                <<"Could not extract page ID from URL. Make sure you are on a valid Notion page.">>
            /\ RequestFailed => responses[1].error \in ErrorMessages
       ELSE responses[1].success = TRUE

\* At every moment: no response while the action runs, and the one response
\* of the claim from its end on.
AnsweredOnce ==
    IsDef(request) =>
        /\ Len(responses) <= 1
        /\ at # "idle" => responses = <<>>
        /\ at = "idle" => Answered

\* C19: every message the listener receives gets exactly one response: a
\* success response when the action completes, success false with Unknown
\* action for an action that is not known, and success false with the
\* message of the error when the action throws (no API key, no page id in
\* the url, a failed request); no message stays without a response and none
\* is answered twice.
OneResponse ==
    /\ []AnsweredOnce
    /\ (at # "idle") ~> (at = "idle" /\ Len(responses) = 1)

\* An extract request whose page request was refused and whose block
\* request failed as well: one response, with the message of the first error.
OneResponseWitness ==
    /\ IsDef(request)
    /\ request[1].action = "extract"
    /\ at = "idle"
    /\ pageCall = "failed"
    /\ blocksCall = "failed"
    /\ failures = 2
    /\ Len(responses) = 1
    /\ responses[1].success = FALSE
    /\ responses[1].error = <<"API token is invalid.">>

=============================================================================
